---- MODULE Spec2Model ----
(***************************************************************************)
(* A model of the lox tree-walking interpreter: the static Resolver, the   *)
(* Environment chain, the Evaluator (Interpreter) and the driver `run`.    *)
(*                                                                         *)
(* The Rust visitors are recursive functions; each is an operator here,    *)
(* threading the interpreter (or resolver) state as a record and returning *)
(* it with the field `res` set to the Rust ResultExec:                     *)
(*   Ok(v)                                  [kind |-> "ok", val |-> v]     *)
(*   Err(ControlFlow::Error(e))             [kind |-> "error", err |-> e]  *)
(*   Err(Runtime(RuntimeControl::Break))    [kind |-> "break"]             *)
(*   Err(Runtime(RuntimeControl::Return(v)))[kind |-> "return", val |-> v] *)
(*   a panic! unwinding the process         [kind |-> "panic"]             *)
(*   a loop cut off by the model's MaxIter  [kind |-> "diverge"]           *)
(* One action is one iteration of a top-level loop of the driver.          *)
(***************************************************************************)
EXTENDS Integers, Sequences, FiniteSets, TLC

\* ---------------------------------------------------------------- bounds

\* Iterations of one `while` statement the model follows before it gives up.
MaxIter == 3

\* Longest program built from the statement pool.
MaxProgLen == 2

\* Environments in the chains the Environment operations are applied to.
MaxEnvs == 3

\* Tokens in a sequence of the token pool.
MaxTokens == 3

\* ---------------------------------------------------------------- values

Number(n) == [t |-> "Number", n |-> n, d |-> 1]
\* A String is the sequence of its characters.
String(s) == [t |-> "String", s |-> s]
Bool(b) == [t |-> "Bool", b |-> b]
Null == [t |-> "Null"]
Callable(f) == [t |-> "Callable", fn |-> f]

\* Function::Custom; is_initializer as the interpreter constructs it.
Custom(params, body, closure, is_initializer) ==
    [params |-> params, body |-> body, closure |-> closure,
     is_initializer |-> is_initializer]

\* Class: Rc<Class> is immutable, so the value holds the class itself;
\* superclass is << >> (None) or <<class value>>, methods maps a method
\* name to its Function::Custom.
Class(name, superclass, methods) ==
    [t |-> "Class", name |-> name, superclass |-> superclass, methods |-> methods]

\* Instance: `fields` is an Rc<RefCell<HashMap>>, an index into the heap
\* st.fields that every clone of the Instance shares.
Instance(klass, fields) == [t |-> "Instance", klass |-> klass, fields |-> fields]

\* f32 arithmetic on the small literals of the modelled programs: a ratio
\* n/d in lowest terms, d > 0, with 1/0 = inf, -1/0 = -inf, 0/0 = NaN.
Abs(i) == IF i < 0 THEN -i ELSE i

RECURSIVE Gcd(_, _)
Gcd(a, b) == IF b = 0 THEN a ELSE Gcd(b, a % b)

Ratio(n, d) ==
    IF d = 0 THEN [t |-> "Number", n |-> (IF n > 0 THEN 1 ELSE IF n < 0 THEN -1 ELSE 0), d |-> 0]
    ELSE LET g == Gcd(Abs(n), Abs(d))
             s == IF d < 0 THEN -1 ELSE 1
         IN [t |-> "Number", n |-> (s * n) \div g, d |-> Abs(d) \div g]

IsNaN(x) == x.n = 0 /\ x.d = 0

NumAdd(l, r) ==
    IF l.d = 0 /\ r.d = 0 /\ l.n = r.n THEN l
    ELSE Ratio(l.n * r.d + r.n * l.d, l.d * r.d)
NumNeg(x) == [x EXCEPT !.n = -x.n]
NumSub(l, r) == NumAdd(l, NumNeg(r))
NumMul(l, r) == Ratio(l.n * r.n, l.d * r.d)
NumDiv(l, r) == Ratio(l.n * r.d, l.d * r.n)
NumEq(l, r) == ~IsNaN(l) /\ ~IsNaN(r) /\ l.n = r.n /\ l.d = r.d
NumLt(l, r) ==
    /\ ~IsNaN(l) /\ ~IsNaN(r)
    /\ IF l.d = 0 /\ r.d = 0 THEN l.n < r.n ELSE l.n * r.d < r.n * l.d

\* ------------------------------------------------------------ syntax tree

\* Expr, as the parser builds it. `site` identifies one reference in the text.
Literal(value) == [k |-> "Literal", value |-> value]
Grouping(expression) == [k |-> "Grouping", expression |-> expression]
Binary(left, operator, right) ==
    [k |-> "Binary", left |-> left, operator |-> operator, right |-> right]
Unary(operator, right) == [k |-> "Unary", operator |-> operator, right |-> right]
Variable(name, site) == [k |-> "Variable", name |-> name, site |-> site]
Assign(name, site, value) ==
    [k |-> "Assign", name |-> name, site |-> site, value |-> value]
Logical(left, operator, right) ==
    [k |-> "Logical", left |-> left, operator |-> operator, right |-> right]
Call(callee, arguments) == [k |-> "Call", callee |-> callee, arguments |-> arguments]
Get(object, name) == [k |-> "Get", object |-> object, name |-> name]
Set(object, name, value) ==
    [k |-> "Set", object |-> object, name |-> name, value |-> value]
\* The keyword token of Super and This renders as "super" and "this".
Super(site, method) == [k |-> "Super", name |-> "super", site |-> site, method |-> method]
This(site) == [k |-> "This", name |-> "this", site |-> site]
Lambda(params, body) == [k |-> "Lambda", params |-> params, body |-> body]
Comma(left, right) == [k |-> "Comma", left |-> left, right |-> right]

\* Stmt. An absent Option<..> is the empty sequence, a present one <<x>>.
Stmt_Print(expression) == [k |-> "Print", expression |-> expression]
Stmt_Expression(expression) == [k |-> "Expression", expression |-> expression]
Stmt_Var(name, initializer) == [k |-> "Var", name |-> name, initializer |-> initializer]
Stmt_Function(name, params, body) ==
    [k |-> "Function", name |-> name, params |-> params, body |-> body]
Stmt_Return(value) == [k |-> "Return", value |-> value]
Stmt_Block(statements) == [k |-> "Block", statements |-> statements]
Stmt_If(condition, then_branch, else_branch) ==
    [k |-> "If", condition |-> condition, then_branch |-> then_branch,
     else_branch |-> else_branch]
Stmt_While(condition, body) == [k |-> "While", condition |-> condition, body |-> body]
\* superclass is << >> or <<Variable>>; methods are Stmt_Function.
Stmt_Class(name, superclass, methods) ==
    [k |-> "Class", name |-> name, superclass |-> superclass, methods |-> methods]
Stmt_Break == [k |-> "Break"]

\* ------------------------------------------------------------- results

Ok(v) == [kind |-> "ok", val |-> v]
Unit == [t |-> "Unit"]
Err(e) == [kind |-> "error", err |-> e]
BreakFlow == [kind |-> "break"]
ReturnFlow(v) == [kind |-> "return", val |-> v]
Panic == [kind |-> "panic"]
Diverge == [kind |-> "diverge"]

SetRes(st, r) == [st EXCEPT !.res = r]
Log(st, e) == [st EXCEPT !.log = Append(@, e)]

\* ---------------------------------------------------------- environment

\* Environment::new / Environment::from: a record in the heap st.envs;
\* enclosing = 0 is None. An Rc<RefCell<Environment>> is an index.
NewEnv(enclosing) == [values |-> << >>, enclosing |-> enclosing]

\* Allocates Environment::from(enclosing); the new index is Len(envs').
Environment_from(st, enclosing) ==
    [st EXCEPT !.envs = Append(@, NewEnv(enclosing))]

Environment_define(st, e, name, value) ==
    [st EXCEPT !.envs[e].values = (name :> value) @@ @]

RECURSIVE Environment_get(_, _, _)
Environment_get(st, e, name) ==
    IF name \in DOMAIN st.envs[e].values
    THEN Ok(st.envs[e].values[name])
    ELSE IF st.envs[e].enclosing # 0
         THEN Environment_get(st, st.envs[e].enclosing, name)
         ELSE Err("UndefinedVar")

\* Environment::ancestor starts from a fresh Rc holding a clone of the
\* receiver and follows `enclosing` links, which are the shared cells. The
\* result is [fresh, env]: at distance 0 the clone (fresh) of env, otherwise
\* the shared Environment env; env = 0 is the panic.
RECURSIVE Hops(_, _, _)
Hops(st, e, distance) ==
    IF distance = 0 THEN e
    ELSE IF st.envs[e].enclosing = 0 THEN 0
         ELSE Hops(st, st.envs[e].enclosing, distance - 1)

Environment_ancestor(st, e, distance) ==
    [fresh |-> distance = 0, env |-> Hops(st, e, distance)]

Environment_get_at(st, e, distance, name) ==
    LET a == Environment_ancestor(st, e, distance) IN
    IF a.env = 0 THEN Panic
    ELSE IF name \in DOMAIN st.envs[a.env].values
         THEN Ok(st.envs[a.env].values[name])
         ELSE Err("UndefinedVar")

\* Environment::assign declaring the name in the root Environment when no
\* Environment of the chain binds it.
RECURSIVE Environment_assign_or_define(_, _, _, _)
Environment_assign_or_define(st, e, name, value) ==
    IF name \in DOMAIN st.envs[e].values
    THEN SetRes([st EXCEPT !.envs[e].values[name] = value], Ok(Unit))
    ELSE IF st.envs[e].enclosing # 0
         THEN Environment_assign_or_define(st, st.envs[e].enclosing, name, value)
         ELSE SetRes([st EXCEPT !.envs[e].values = (name :> value) @@ @], Ok(Unit))

RECURSIVE Environment_assign(_, _, _, _)
Environment_assign(st, e, name, value) ==
    IF name \in DOMAIN st.envs[e].values
    THEN SetRes([st EXCEPT !.envs[e].values[name] = value], Ok(Unit))
    ELSE IF st.envs[e].enclosing # 0
         THEN Environment_assign(st, st.envs[e].enclosing, name, value)
         ELSE SetRes(st, Err("UndefinedVar"))

\* The insert goes into the Environment ancestor() returned: the temporary
\* clone at distance 0, which is dropped, or the shared one further up.
Environment_assign_at(st, e, distance, name, value) ==
    LET a == Environment_ancestor(st, e, distance) IN
    IF a.env = 0 THEN SetRes(st, Panic)
    ELSE IF a.fresh THEN SetRes(st, Ok(Unit))
         ELSE SetRes([st EXCEPT !.envs[a.env].values = (name :> value) @@ @], Ok(Unit))

\* ---------------------------------------------------------- interpreter

\* Interpreter::new: `environment` and `globals` are the same Rc.
Interpreter_new ==
    [envs |-> <<NewEnv(0)>>, environment |-> 1, globals |-> 1,
     fields |-> << >>, locals |-> << >>, out |-> << >>, log |-> << >>,
     res |-> Ok(Unit)]

\* Interpreter::resolve: the table is keyed by the token's text.
Interpreter_resolve(locals, name, depth) == (name :> depth) @@ locals

\* is_truthy with the Number 0 and the empty String falsy as well.
is_truthy_zero_falsy(value) ==
    CASE value.t = "Null" -> FALSE
      [] value.t = "Bool" -> value.b
      [] value.t = "Number" -> value.n # 0
      [] value.t = "String" -> value.s # << >>
      [] OTHER -> TRUE

is_truthy(value) ==
    CASE value.t = "Null" -> FALSE
      [] value.t = "Bool" -> value.b
      [] OTHER -> TRUE

\* is_equal whose last arm compares the truthiness of the two values
\* instead of answering false.
is_equal_by_truthiness(left, right) ==
    CASE left.t = "Null" /\ right.t = "Null" -> TRUE
      [] left.t = "Null" \/ right.t = "Null" -> FALSE
      [] left.t = "Bool" /\ right.t = "Bool" -> left.b = right.b
      [] left.t = "Number" /\ right.t = "Number" -> NumEq(left, right)
      [] left.t = "String" /\ right.t = "String" -> left.s = right.s
      [] OTHER -> is_truthy(left) = is_truthy(right)

is_equal(left, right) ==
    CASE left.t = "Null" /\ right.t = "Null" -> TRUE
      [] left.t = "Null" \/ right.t = "Null" -> FALSE
      [] left.t = "Bool" /\ right.t = "Bool" -> left.b = right.b
      [] left.t = "Number" /\ right.t = "Number" -> NumEq(left, right)
      [] left.t = "String" /\ right.t = "String" -> left.s = right.s
      [] OTHER -> FALSE

\* check_number_operands looking at the left operand only; a right operand
\* that is no Number counts as 0.
check_number_operands_left_only(left, right) ==
    IF left.t = "Number"
    THEN Ok(<<left, IF right.t = "Number" THEN right ELSE Number(0)>>)
    ELSE Err("WrongValueType")

check_number_operands(left, right) ==
    IF left.t = "Number" /\ right.t = "Number"
    THEN Ok(<<left, right>>)
    ELSE Err("WrongValueType")

check_number_operand(operand) ==
    IF operand.t = "Number" THEN Ok(operand) ELSE Err("WrongValueType")

\* format!("{}{}", l, r)
Concat(l, r) == String(l.s \o r.s)

\* The match on operator.token_type of visit_binary_expr, on evaluated
\* operands.
binary_op(operator, left, right) ==
    LET nums == check_number_operands(left, right)
        l == nums.val[1]
        r == nums.val[2]
    IN
    CASE operator = "-" -> IF nums.kind = "ok" THEN Ok(NumSub(l, r)) ELSE nums
      [] operator = "/" -> IF nums.kind = "ok" THEN Ok(NumDiv(l, r)) ELSE nums
      [] operator = "*" -> IF nums.kind = "ok" THEN Ok(NumMul(l, r)) ELSE nums
      [] operator = "+" ->
            IF left.t = "Number" /\ right.t = "Number" THEN Ok(NumAdd(left, right))
            ELSE IF left.t = "String" /\ right.t = "String" THEN Ok(Concat(left, right))
            ELSE Err("WrongValueType")
      [] operator = ">" -> IF nums.kind = "ok" THEN Ok(Bool(NumLt(r, l))) ELSE nums
      [] operator = ">=" ->
            IF nums.kind = "ok" THEN Ok(Bool(NumLt(r, l) \/ NumEq(l, r))) ELSE nums
      [] operator = "<" -> IF nums.kind = "ok" THEN Ok(Bool(NumLt(l, r))) ELSE nums
      [] operator = "<=" ->
            IF nums.kind = "ok" THEN Ok(Bool(NumLt(l, r) \/ NumEq(l, r))) ELSE nums
      [] operator = "==" -> Ok(Bool(is_equal(left, right)))
      [] operator = "!=" -> Ok(Bool(~is_equal(left, right)))
      [] OTHER -> Err("UnrecognizedOpt")

unary_op(operator, right) ==
    CASE operator = "-" ->
            LET n == check_number_operand(right) IN
            IF n.kind = "ok" THEN Ok(NumNeg(right)) ELSE n
      [] operator = "!" -> Ok(Bool(~is_truthy(right)))
      [] OTHER -> Err("UnrecognizedOpt")

\* A lookup in the class's own method table only.
find_method_own(klass, name) ==
    IF name \in DOMAIN klass.methods THEN <<klass.methods[name]>> ELSE << >>

\* Class::find_method: the class's own table, then the superclass chain;
\* << >> is None.
RECURSIVE find_method(_, _)
find_method(klass, name) ==
    IF name \in DOMAIN klass.methods THEN <<klass.methods[name]>>
    ELSE IF klass.superclass = << >> THEN << >>
    ELSE find_method(klass.superclass[1], name)

\* arity() of a Function::Custom and of a Class.
Function_arity(f) == Len(f.params)

Class_arity(klass) ==
    LET initializer == find_method(klass, "init") IN
    IF initializer # << >> THEN Function_arity(initializer[1]) ELSE 0

\* Function::bind: a new Environment around the closure, defining `this`;
\* res is the bound Function as a Callable.
Function_bind(st, f, instance) ==
    LET s1 == Environment_from(st, f.closure)
        environment == Len(s1.envs)
    IN SetRes(Environment_define(s1, environment, "this", instance),
              Ok(Callable(Custom(f.params, f.body, environment, f.is_initializer))))

\* Instance::get: a field, else a method bound to a new Rc holding a clone
\* of the Instance (the clone shares `fields`), else UndefinedVar.
Instance_get(st, instance, name) ==
    IF name \in DOMAIN st.fields[instance.fields]
    THEN SetRes(st, Ok(st.fields[instance.fields][name]))
    ELSE LET method == find_method(instance.klass, name) IN
         IF method = << >> THEN SetRes(st, Err("UndefinedVar"))
         ELSE Function_bind(st, method[1], instance)

Instance_set(st, instance, name, value) ==
    [st EXCEPT !.fields[instance.fields] = (name :> value) @@ @]

\* visit_super_expr: `super` at its recorded distance, `this` one
\* Environment nearer (distance - 1 on a usize: 0 - 1 panics), and the
\* superclass's method bound to that Instance.
visit_super_expr(st, expr) ==
    IF "super" \notin DOMAIN st.locals THEN SetRes(st, Err("UndefinedVar")) ELSE
    LET distance == st.locals["super"]
        superclass == Environment_get_at(st, st.environment, distance, "super")
        s1 == Log(st, [ev |-> "super", site |-> expr.site, distance |-> distance])
    IN IF superclass.kind # "ok" THEN SetRes(s1, superclass)
       ELSE IF superclass.val.t # "Class" THEN SetRes(s1, Err("WrongValueType"))
       ELSE IF distance = 0 THEN SetRes(s1, Panic)
       ELSE LET instance == Environment_get_at(st, st.environment, distance - 1, "this") IN
            IF instance.kind # "ok" THEN SetRes(s1, instance)
            ELSE IF instance.val.t # "Instance" THEN SetRes(s1, Err("UndefinedVar"))
            ELSE LET method == find_method(superclass.val, expr.method) IN
                 IF method = << >> THEN SetRes(s1, Err("UndefinedVar"))
                 ELSE Function_bind(s1, method[1], instance.val)

\* visit_class_stmt once the superclass, if any, has been evaluated to a
\* Class: ev_superclass is << >> or <<that Class>>.
class_declare(st, stmt, ev_superclass) ==
    LET s1 == Environment_define(st, st.environment, stmt.name, Null)
        s2 == IF ev_superclass = << >> THEN s1
              ELSE LET a == Environment_from(s1, s1.environment) IN
                   Environment_define([a EXCEPT !.environment = Len(a.envs)],
                                      Len(a.envs), "super", ev_superclass[1])
        \* methods_map.insert: the last method of a name stays
        last(n) == CHOOSE i \in DOMAIN stmt.methods :
                      /\ stmt.methods[i].name = n
                      /\ \A j \in DOMAIN stmt.methods :
                            stmt.methods[j].name = n => j <= i
        methods_map ==
            [n \in {stmt.methods[i].name : i \in DOMAIN stmt.methods} |->
                Custom(stmt.methods[last(n)].params, stmt.methods[last(n)].body,
                       s2.environment, n = "this")]
        klass == Class(stmt.name, ev_superclass, methods_map)
        s3 == IF ev_superclass = << >> THEN s2
              ELSE [s2 EXCEPT !.environment = s2.envs[s2.environment].enclosing]
    IN IF \E i \in DOMAIN stmt.methods : stmt.methods[i].k # "Function"
       THEN SetRes(s2, Err("UnexpectedStmt"))
       ELSE Environment_assign(s3, s3.environment, stmt.name, klass)

\* look_up_var: by distance when the table has the name, else in globals.
look_up_var(st, name) ==
    IF name.name \in DOMAIN st.locals
    THEN Log(SetRes(st, Environment_get_at(st, st.environment,
                                           st.locals[name.name], name.name)),
             [ev |-> "lookup", site |-> name.site, name |-> name.name,
              distance |-> st.locals[name.name], env |-> st.environment])
    ELSE Log(SetRes(st, Environment_get(st, st.globals, name.name)),
             [ev |-> "lookup", site |-> name.site, name |-> name.name,
              distance |-> -1, env |-> st.environment])

RECURSIVE Class_call(_, _, _)
RECURSIVE evaluate(_, _), execute(_, _), execute_block(_, _, _),
          execute_stmts(_, _, _), evaluate_args(_, _, _, _),
          Function_call(_, _, _), while_loop(_, _, _, _)

\* In the operators below, CHOOSE r \in {f(s1) : s1 \in {e}} : TRUE is
\* f(e) with e evaluated once: s1 is the interpreter after e.

visit_assign_expr(st, expr) ==
    CHOOSE r \in
      { IF s1.res.kind # "ok" THEN s1 ELSE
        LET value == s1.res.val
            distance == IF expr.name \in DOMAIN s1.locals
                        THEN s1.locals[expr.name] ELSE -1
            s2 == IF distance >= 0
                  THEN Environment_assign_at(s1, s1.environment, distance,
                                             expr.name, value)
                  ELSE Environment_assign(s1, s1.globals, expr.name, value)
            s3 == Log(s2, [ev |-> "assign", site |-> expr.site, name |-> expr.name,
                           distance |-> distance, env |-> s1.environment])
        IN IF s2.res.kind # "ok" THEN s3 ELSE SetRes(s3, Ok(value))
        : s1 \in {evaluate(st, expr.value)} } : TRUE

visit_unary_expr(st, expr) ==
    CHOOSE r \in
      { IF s1.res.kind # "ok" THEN s1
        ELSE SetRes(s1, unary_op(expr.operator, s1.res.val))
        : s1 \in {evaluate(st, expr.right)} } : TRUE

\* The right operand is evaluated in the interpreter the left one left.
visit_binary_right(s1, expr) ==
    CHOOSE r \in
      { IF s2.res.kind # "ok" THEN s2
        ELSE SetRes(s2, binary_op(expr.operator, s1.res.val, s2.res.val))
        : s2 \in {evaluate(s1, expr.right)} } : TRUE

visit_binary_expr(st, expr) ==
    CHOOSE r \in
      { IF s1.res.kind # "ok" THEN s1 ELSE visit_binary_right(s1, expr)
        : s1 \in {evaluate(st, expr.left)} } : TRUE

\* The right operand of visit_logical_expr_eager, evaluated in every case.
visit_logical_right_eager(s1, expr) ==
    CHOOSE r \in
      { IF s2.res.kind # "ok" THEN s2
        ELSE IF (expr.operator = "or") = is_truthy(s1.res.val)
             THEN SetRes(s2, s1.res) ELSE s2
        : s2 \in {evaluate(s1, expr.right)} } : TRUE

\* visit_logical_expr evaluating both operands before it picks one.
visit_logical_expr_eager(st, expr) ==
    CHOOSE r \in
      { IF s1.res.kind # "ok" THEN s1 ELSE visit_logical_right_eager(s1, expr)
        : s1 \in {evaluate(st, expr.left)} } : TRUE

visit_logical_expr(st, expr) ==
    CHOOSE r \in
      { IF s1.res.kind # "ok" THEN s1
        ELSE CASE expr.operator = "or" ->
                    IF is_truthy(s1.res.val) THEN s1 ELSE evaluate(s1, expr.right)
               [] expr.operator = "and" ->
                    IF ~is_truthy(s1.res.val) THEN s1 ELSE evaluate(s1, expr.right)
               [] OTHER -> SetRes(s1, Err("UnexpectedOpt"))
        : s1 \in {evaluate(st, expr.left)} } : TRUE

\* The argument loop of visit_call_expr: left to right, stopping at the
\* first Err.
evaluate_args(st, arg_exprs, i, args) ==
    IF i > Len(arg_exprs) THEN SetRes(st, Ok(args))
    ELSE CHOOSE r \in
           { IF s1.res.kind # "ok" THEN s1
             ELSE evaluate_args(s1, arg_exprs, i + 1, Append(args, s1.res.val))
             : s1 \in {evaluate(st, arg_exprs[i])} } : TRUE

\* The call itself, once the callee has been evaluated to a Callable.
visit_call_callee(s1, expr) ==
    CHOOSE r \in
      { IF s2.res.kind # "ok" THEN s2
        ELSE IF s1.res.val.t = "Class" THEN Class_call(s2, s1.res.val, s2.res.val)
        ELSE Function_call(s2, s1.res.val.fn, s2.res.val)
        : s2 \in {evaluate_args(s1, expr.arguments, 1, << >>)} } : TRUE

visit_call_expr(st, expr) ==
    CHOOSE r \in
      { IF s1.res.kind # "ok" THEN s1
        ELSE IF s1.res.val.t \notin {"Callable", "Class"}
             THEN SetRes(s1, Err("NotCallable"))
        ELSE visit_call_callee(s1, expr)
        : s1 \in {evaluate(st, expr.callee)} } : TRUE

visit_get_expr(st, expr) ==
    CHOOSE r \in
      { IF s1.res.kind # "ok" THEN s1
        ELSE IF s1.res.val.t # "Instance" THEN SetRes(s1, Err("UnexpectedExpr"))
        ELSE Instance_get(s1, s1.res.val, expr.name)
        : s1 \in {evaluate(st, expr.object)} } : TRUE

\* The value of visit_set_expr, evaluated after the object.
visit_set_value(s1, expr) ==
    CHOOSE r \in
      { IF s2.res.kind # "ok" THEN s2
        ELSE Instance_set(s2, s1.res.val, expr.name, s2.res.val)
        : s2 \in {evaluate(s1, expr.value)} } : TRUE

visit_set_expr(st, expr) ==
    CHOOSE r \in
      { IF s1.res.kind # "ok" THEN s1
        ELSE IF s1.res.val.t # "Instance" THEN SetRes(s1, Err("UnexpectedExpr"))
        ELSE visit_set_value(s1, expr)
        : s1 \in {evaluate(st, expr.object)} } : TRUE

visit_comma_expr(st, expr) ==
    CHOOSE r \in
      { IF s1.res.kind # "ok" THEN s1 ELSE evaluate(s1, expr.right)
        : s1 \in {evaluate(st, expr.left)} } : TRUE

visit_lambda_expr(st, expr) ==
    SetRes(st, Ok(Callable(Custom(expr.params, expr.body, st.environment, FALSE))))

\* evaluate: Expr::accept dispatches on the variant (visit_expr).
evaluate(st, expr) ==
    CASE expr.k = "Literal" -> SetRes(st, Ok(expr.value))
      [] expr.k = "Grouping" -> evaluate(st, expr.expression)
      [] expr.k = "Binary" -> visit_binary_expr(st, expr)
      [] expr.k = "Unary" -> visit_unary_expr(st, expr)
      [] expr.k = "Variable" -> look_up_var(st, expr)
      [] expr.k = "Assign" -> visit_assign_expr(st, expr)
      [] expr.k = "Logical" -> visit_logical_expr(st, expr)
      [] expr.k = "Call" -> visit_call_expr(st, expr)
      [] expr.k = "Get" -> visit_get_expr(st, expr)
      [] expr.k = "Set" -> visit_set_expr(st, expr)
      [] expr.k = "Super" -> visit_super_expr(st, expr)
      [] expr.k = "This" -> look_up_var(st, expr)
      [] expr.k = "Lambda" -> visit_lambda_expr(st, expr)
      [] expr.k = "Comma" -> visit_comma_expr(st, expr)

\* Binds min(|params|, |arguments|) pairs, as zip does.
RECURSIVE bind_params(_, _, _, _, _)
bind_params(st, e, params, arguments, i) ==
    IF i > Len(params) \/ i > Len(arguments) THEN st
    ELSE bind_params(Environment_define(st, e, params[i], arguments[i]),
                     e, params, arguments, i + 1)

\* Function::call without the Err(ControlFlow::Runtime(Return(..))) arm:
\* a Return of the body goes on to the caller.
Function_call_reraise(st, f, arguments) ==
    LET s1 == Environment_from(st, f.closure)
        environment == Len(s1.envs)
        s2 == bind_params(s1, environment, f.params, arguments, 1)
    IN CHOOSE r \in
         { IF s3.res.kind \in {"panic", "diverge"} THEN s3
           ELSE LET res == IF s3.res.kind = "ok" THEN Ok(Null) ELSE s3.res
                IN Log(SetRes(s3, res),
                       [ev |-> "call", before |-> st.environment,
                        after |-> s3.environment, body |-> s3.res, res |-> res,
                        params |-> f.params, arguments |-> arguments,
                        bound |-> DOMAIN s2.envs[environment].values])
           : s3 \in {execute_block(s2, f.body, environment)} } : TRUE

\* Function::call for Function::Custom.
Function_call(st, f, arguments) ==
    LET s1 == Environment_from(st, f.closure)
        environment == Len(s1.envs)
        s2 == bind_params(s1, environment, f.params, arguments, 1)
    IN CHOOSE r \in
         { IF s3.res.kind \in {"panic", "diverge"} THEN s3
           ELSE LET res == CASE s3.res.kind = "ok" -> Ok(Null)
                             [] s3.res.kind = "return" -> Ok(s3.res.val)
                             [] OTHER -> s3.res
                IN Log(SetRes(s3, res),
                       [ev |-> "call", before |-> st.environment,
                        after |-> s3.environment, body |-> s3.res, res |-> res,
                        params |-> f.params, arguments |-> arguments,
                        bound |-> DOMAIN s2.envs[environment].values])
           : s3 \in {execute_block(s2, f.body, environment)} } : TRUE

\* Class::call: a new Instance with an empty field table; `init`, when
\* find_method has it, is bound to the Instance and called, and only its
\* Err is kept.
Class_call(st, klass, arguments) ==
    LET s0 == [st EXCEPT !.fields = Append(@, << >>)]
        instance == Instance(klass, Len(s0.fields))
        init == find_method(klass, "init")
    IN IF init = << >>
       THEN Log(SetRes(s0, Ok(instance)),
                [ev |-> "construct", klass |-> klass, instance |-> instance,
                 init |-> << >>, arguments |-> arguments])
       ELSE CHOOSE r \in
              { IF s2.res.kind # "ok" THEN s2
                ELSE Log(SetRes(s2, Ok(instance)),
                         [ev |-> "construct", klass |-> klass, instance |-> instance,
                          init |-> <<s2.res.val>>, arguments |-> arguments])
                : s2 \in {Function_call(Function_bind(s0, init[1], instance),
                                        Function_bind(s0, init[1], instance).res.val.fn,
                                        arguments)} } : TRUE

\* visit_class_stmt: the superclass expression must evaluate to a Class.
visit_class_stmt(st, stmt) ==
    IF stmt.superclass = << >> THEN class_declare(st, stmt, << >>)
    ELSE CHOOSE r \in
           { IF s1.res.kind # "ok" THEN s1
             ELSE IF s1.res.val.t # "Class" THEN SetRes(s1, Err("UnexpectedExpr"))
             ELSE class_declare(s1, stmt, <<s1.res.val>>)
             : s1 \in {evaluate(st, stmt.superclass[1])} } : TRUE

visit_expr_stmt(st, stmt) ==
    CHOOSE r \in
      { IF s1.res.kind # "ok" THEN s1 ELSE SetRes(s1, Ok(Unit))
        : s1 \in {evaluate(st, stmt.expression)} } : TRUE

visit_function_stmt(st, stmt) ==
    SetRes(Environment_define(st, st.environment, stmt.name,
                              Callable(Custom(stmt.params, stmt.body, st.environment, FALSE))),
           Ok(Unit))

visit_print_stmt(st, stmt) ==
    CHOOSE r \in
      { IF s1.res.kind # "ok" THEN s1
        ELSE IF s1.res.val.t = "Callable" THEN SetRes(s1, Panic)
        ELSE SetRes([s1 EXCEPT !.out = Append(@, s1.res.val)], Ok(Unit))
        : s1 \in {evaluate(st, stmt.expression)} } : TRUE

visit_return_stmt(st, stmt) ==
    IF stmt.value = << >>
    THEN Log(SetRes(st, ReturnFlow(Null)), [ev |-> "return", val |-> Null])
    ELSE CHOOSE r \in
           { IF s1.res.kind # "ok" THEN s1
             ELSE Log(SetRes(s1, ReturnFlow(s1.res.val)),
                      [ev |-> "return", val |-> s1.res.val])
             : s1 \in {evaluate(st, stmt.value[1])} } : TRUE

visit_var_stmt(st, stmt) ==
    IF stmt.initializer = << >>
    THEN SetRes(Environment_define(st, st.environment, stmt.name, Null), Ok(Unit))
    ELSE CHOOSE r \in
           { IF s1.res.kind # "ok" THEN s1
             ELSE SetRes(Environment_define(s1, s1.environment, stmt.name, s1.res.val),
                         Ok(Unit))
             : s1 \in {evaluate(st, stmt.initializer[1])} } : TRUE

visit_block_stmt(st, stmt) ==
    LET s1 == Environment_from(st, st.environment) IN
    CHOOSE r \in
      { IF s2.res.kind \in {"panic", "diverge"} THEN s2
        ELSE Log(s2, [ev |-> "block", before |-> st.environment,
                      after |-> s2.environment, kind |-> s2.res.kind])
        : s2 \in {execute_block(s1, stmt.statements, Len(s1.envs))} } : TRUE

\* The branch of visit_if_stmt that runs: its Ok value is dropped.
visit_if_branch(s1, branch) ==
    CHOOSE r \in
      { IF s2.res.kind # "ok" THEN s2 ELSE SetRes(s2, Ok(Unit))
        : s2 \in {execute(s1, branch)} } : TRUE

visit_if_stmt(st, stmt) ==
    CHOOSE r \in
      { IF s1.res.kind # "ok" THEN s1
        ELSE IF is_truthy(s1.res.val) THEN visit_if_branch(s1, stmt.then_branch)
        ELSE IF stmt.else_branch # << >> THEN visit_if_branch(s1, stmt.else_branch[1])
        ELSE SetRes(s1, Ok(Unit))
        : s1 \in {evaluate(st, stmt.condition)} } : TRUE

\* The body of one iteration of the loop of visit_while_stmt: `?` hands
\* every Err of the body, a Break too, to the caller.
while_body(s1, condition, body, n) ==
    CHOOSE r \in
      { IF s2.res.kind # "ok"
        THEN Log(s2, [ev |-> "while", body |-> s2.res.kind, res |-> s2.res.kind])
        ELSE while_loop(s2, condition, body, n + 1)
        : s2 \in {execute(s1, body)} } : TRUE

\* The loop of visit_while_stmt; n counts the iterations started.
while_loop(st, condition, body, n) ==
    CHOOSE r \in
      { IF s1.res.kind # "ok" THEN s1
        ELSE IF ~is_truthy(s1.res.val) THEN SetRes(s1, Ok(Unit))
        ELSE IF n >= MaxIter THEN SetRes(s1, Diverge)
        ELSE while_body(s1, condition, body, n)
        : s1 \in {evaluate(st, condition)} } : TRUE

visit_while_stmt(st, stmt) == while_loop(st, stmt.condition, stmt.body, 0)

visit_break_stmt(st) == SetRes(st, BreakFlow)

\* execute: Stmt::accept dispatches on the variant (visit_stmt).
execute(st, stmt) ==
    CASE stmt.k = "Print" -> visit_print_stmt(st, stmt)
      [] stmt.k = "Expression" -> visit_expr_stmt(st, stmt)
      [] stmt.k = "Var" -> visit_var_stmt(st, stmt)
      [] stmt.k = "Function" -> visit_function_stmt(st, stmt)
      [] stmt.k = "Return" -> visit_return_stmt(st, stmt)
      [] stmt.k = "Block" -> visit_block_stmt(st, stmt)
      [] stmt.k = "If" -> visit_if_stmt(st, stmt)
      [] stmt.k = "While" -> visit_while_stmt(st, stmt)
      [] stmt.k = "Break" -> visit_break_stmt(st)
      [] stmt.k = "Class" -> visit_class_stmt(st, stmt)

\* stmts.iter().try_for_each(|stmt| self.execute(stmt))
execute_stmts(st, stmts, i) ==
    IF i > Len(stmts) THEN SetRes(st, Ok(Unit))
    ELSE CHOOSE r \in
           { IF s1.res.kind # "ok" THEN s1 ELSE execute_stmts(s1, stmts, i + 1)
             : s1 \in {execute(st, stmts[i])} } : TRUE

\* execute_block as it would be with `?` on the statements: the previous
\* environment comes back only after a normal completion.
execute_block_restore_on_ok(st, stmts, env) ==
    CHOOSE r \in
      { IF s1.res.kind = "ok" THEN [s1 EXCEPT !.environment = st.environment] ELSE s1
        : s1 \in {execute_stmts([st EXCEPT !.environment = env], stmts, 1)} } : TRUE

\* A panic unwinds past the restore; every returned result passes it.
execute_block(st, stmts, env) ==
    CHOOSE r \in
      { IF s1.res.kind \in {"panic", "diverge"} THEN s1
        ELSE [s1 EXCEPT !.environment = st.environment]
        : s1 \in {execute_stmts([st EXCEPT !.environment = env], stmts, 1)} } : TRUE

\* ------------------------------------------------------------- resolver

\* Resolver::new. `locals` is the table of the Interpreter the Resolver
\* holds; `sites` records, per reference site, the distance resolve_local
\* found for it (-1: none, the name is left to the global scope); `out` is
\* what the Resolver itself wrote to standard output.
Resolver_new(locals) ==
    [scopes |-> << >>, current_function |-> "None", current_class |-> "None",
     locals |-> locals, sites |-> << >>, out |-> << >>, res |-> Ok(Unit)]

Resolver_begin_scope(rs) == [rs EXCEPT !.scopes = Append(@, << >>)]

\* The names end_scope can report: the scope is a HashMap, iterated in an
\* order the hasher's random seed decides, and the first unused entry met is
\* the one returned.
Unused(scope) ==
    {name \in DOMAIN scope :
        scope[name].defined /\ ~scope[name].used /\ name # "this" /\ name # "super"}

Resolver_end_scope(rs) ==
    IF rs.scopes = << >> THEN SetRes(rs, Ok(Unit))
    ELSE LET scope == rs.scopes[Len(rs.scopes)]
             popped == [rs EXCEPT !.scopes = SubSeq(@, 1, Len(@) - 1)]
         IN IF Unused(scope) # {}
            THEN SetRes(popped, [kind |-> "error", err |-> "UnusedVariable",
                                 names |-> Unused(scope)])
            ELSE SetRes(popped, Ok(Unit))

Resolver_declare(rs, name) ==
    IF rs.scopes = << >> THEN rs
    ELSE [rs EXCEPT !.scopes[Len(rs.scopes)] =
                        (name :> [defined |-> FALSE, used |-> FALSE]) @@ @]

Resolver_define(rs, name) ==
    IF rs.scopes = << >> THEN rs
    ELSE [rs EXCEPT !.scopes[Len(rs.scopes)] =
                        (name :> [defined |-> TRUE, used |-> FALSE]) @@ @]

\* Index, from the innermost scope (0) outwards, of the first scope holding
\* the name; -1 when no scope does.
RECURSIVE FindScope(_, _, _)
FindScope(scopes, name, i) ==
    IF i >= Len(scopes) THEN -1
    ELSE IF name \in DOMAIN scopes[Len(scopes) - i] THEN i
    ELSE FindScope(scopes, name, i + 1)

Resolver_resolve_local(rs, name) ==
    LET distance == FindScope(rs.scopes, name.name, 0) IN
    IF distance >= 0
    THEN [rs EXCEPT !.locals = Interpreter_resolve(@, name.name, distance),
                    !.sites = (name.site :> distance) @@ @,
                    !.out = Append(@, String(<<"here 2">>))]
    ELSE [rs EXCEPT !.sites = (name.site :> -1) @@ @]

RECURSIVE Resolver_resolve(_, _), Resolver_resolve_all(_, _, _),
          Resolver_resolve_methods(_, _, _)

\* visit_var_expr without the test for a declared, not yet defined name.
Resolver_visit_var_expr_unchecked(rs, name) ==
    LET i == FindScope(rs.scopes, name.name, 0)
        marked == IF i >= 0
                  THEN [rs EXCEPT !.scopes[Len(rs.scopes) - i][name.name].used = TRUE]
                  ELSE rs
    IN SetRes(Resolver_resolve_local(marked, name), Ok(Unit))

Resolver_visit_var_expr(rs, name) ==
    IF /\ rs.scopes # << >>
       /\ name.name \in DOMAIN rs.scopes[Len(rs.scopes)]
       /\ ~rs.scopes[Len(rs.scopes)][name.name].defined
    THEN SetRes(rs, Err("InvalidContext"))
    ELSE LET i == FindScope(rs.scopes, name.name, 0)
             marked == IF i >= 0
                       THEN [rs EXCEPT !.scopes[Len(rs.scopes) - i][name.name].used = TRUE]
                       ELSE rs
         IN SetRes(Resolver_resolve_local(marked, name), Ok(Unit))

\* visit_assign_expr counting the assignment as a use of the variable.
Resolver_visit_assign_expr_marks(rs, expr) ==
    LET r1 == Resolver_resolve(rs, expr.value) IN
    IF r1.res.kind # "ok" THEN r1
    ELSE Resolver_visit_var_expr_unchecked(r1, expr)

Resolver_visit_assign_expr(rs, expr) ==
    LET r1 == Resolver_resolve(rs, expr.value) IN
    IF r1.res.kind # "ok" THEN r1
    ELSE SetRes(Resolver_resolve_local(r1, expr), Ok(Unit))

\* Resolves nodes[i..] in order, stopping at the first Err (the `?`).
Resolver_resolve_all(rs, nodes, i) ==
    IF i > Len(nodes) THEN SetRes(rs, Ok(Unit))
    ELSE LET r1 == Resolver_resolve(rs, nodes[i]) IN
         IF r1.res.kind # "ok" THEN r1 ELSE Resolver_resolve_all(r1, nodes, i + 1)

Resolver_visit_block_stmt(rs, stmt) ==
    LET r1 == Resolver_resolve_all(Resolver_begin_scope(rs), stmt.statements, 1) IN
    IF r1.res.kind # "ok" THEN r1 ELSE Resolver_end_scope(r1)

Resolver_visit_var_stmt(rs, stmt) ==
    LET r1 == Resolver_resolve_all(Resolver_declare(rs, stmt.name), stmt.initializer, 1) IN
    IF r1.res.kind # "ok" THEN r1
    ELSE SetRes(Resolver_define(r1, stmt.name), Ok(Unit))

RECURSIVE Resolver_declare_params(_, _, _)
Resolver_declare_params(rs, parameters, i) ==
    IF i > Len(parameters) THEN rs
    ELSE Resolver_declare_params(
             Resolver_define(Resolver_declare(rs, parameters[i]), parameters[i]),
             parameters, i + 1)

Resolver_resolve_function(rs, parameters, body, function_type) ==
    LET enclosing_function == rs.current_function
        r1 == Resolver_declare_params(
                  Resolver_begin_scope([rs EXCEPT !.current_function = function_type]),
                  parameters, 1)
        r2 == Resolver_resolve_all(r1, body, 1)
    IN IF r2.res.kind # "ok" THEN r2 ELSE
       LET r3 == Resolver_end_scope(r2) IN
       IF r3.res.kind # "ok" THEN r3
       ELSE [r3 EXCEPT !.current_function = enclosing_function]

Resolver_visit_function_stmt(rs, stmt) ==
    Resolver_resolve_function(Resolver_define(Resolver_declare(rs, stmt.name), stmt.name),
                              stmt.params, stmt.body, "Function")

Resolver_visit_if_stmt(rs, stmt) ==
    Resolver_resolve_all(rs, <<stmt.condition, stmt.then_branch>> \o stmt.else_branch, 1)

\* visit_return_stmt without the FunctionType::None arm.
Resolver_visit_return_stmt_anywhere(rs, stmt) ==
    IF stmt.value # << >> /\ rs.current_function = "Initializer"
    THEN SetRes(rs, Err("UnexpectedStmt"))
    ELSE Resolver_resolve_all(rs, stmt.value, 1)

Resolver_visit_return_stmt(rs, stmt) ==
    IF rs.current_function = "None" THEN SetRes(rs, Err("UnexpectedStmt"))
    ELSE IF stmt.value # << >> /\ rs.current_function = "Initializer"
         THEN SetRes(rs, Err("UnexpectedStmt"))
         ELSE Resolver_resolve_all(rs, stmt.value, 1)

Resolver_visit_while_stmt(rs, stmt) ==
    Resolver_resolve_all(rs, <<stmt.condition, stmt.body>>, 1)

\* The Expr::Super arm of visit_expr: no test of the context.
Resolver_visit_super_expr(rs, expr) ==
    SetRes(Resolver_resolve_local([rs EXCEPT !.out = Append(@, String(<<"here">>))], expr),
           Ok(Unit))

\* The Expr::This arm of visit_expr.
Resolver_visit_this_expr(rs, expr) ==
    IF rs.current_class = "None" THEN SetRes(rs, Err("InvalidContext"))
    ELSE SetRes(Resolver_resolve_local(
                    [rs EXCEPT !.out = Append(@, String(<<"here this">>))], expr),
                Ok(Unit))

\* The loop over the methods of visit_class_stmt.
Resolver_resolve_methods(rs, methods, i) ==
    IF i > Len(methods) THEN SetRes(rs, Ok(Unit))
    ELSE IF methods[i].k # "Function" THEN SetRes(rs, Err("UnexpectedStmt"))
    ELSE LET r1 == Resolver_resolve_function(
                       rs, methods[i].params, methods[i].body,
                       IF methods[i].name = "init" THEN "Initializer" ELSE "Method")
         IN IF r1.res.kind # "ok" THEN r1
            ELSE Resolver_resolve_methods(r1, methods, i + 1)

\* The scopes visit_class_stmt opens, once the superclass is resolved: one
\* holding `super` when there is a superclass, one holding `this`.
Resolver_class_scopes(rs, stmt, enclosing_class) ==
    LET synthetic == [defined |-> TRUE, used |-> FALSE]
        r1 == IF stmt.superclass = << >> THEN rs
              ELSE LET b == Resolver_begin_scope(rs) IN
                   [b EXCEPT !.scopes[Len(b.scopes)] = ("super" :> synthetic) @@ @]
        r2 == LET b == Resolver_begin_scope(r1) IN
              [b EXCEPT !.scopes[Len(b.scopes)] = ("this" :> synthetic) @@ @]
        r3 == Resolver_resolve_methods(r2, stmt.methods, 1)
    IN IF r3.res.kind # "ok" THEN r3 ELSE
       LET r4 == Resolver_end_scope(r3) IN
       IF r4.res.kind # "ok" THEN r4 ELSE
       LET r5 == IF stmt.superclass = << >> THEN r4 ELSE Resolver_end_scope(r4) IN
       IF r5.res.kind # "ok" THEN r5
       ELSE [r5 EXCEPT !.current_class = enclosing_class]

Resolver_visit_class_stmt(rs, stmt) ==
    LET enclosing_class == rs.current_class
        r1 == Resolver_define(
                  Resolver_declare([rs EXCEPT !.current_class = "Class"], stmt.name),
                  stmt.name)
    IN IF stmt.superclass = << >> THEN Resolver_class_scopes(r1, stmt, enclosing_class)
       ELSE IF stmt.superclass[1].k # "Variable" THEN SetRes(r1, Err("UnexpectedExpr"))
       ELSE IF stmt.superclass[1].name = stmt.name THEN SetRes(r1, Err("UnexpectedExpr"))
       ELSE LET r2 == Resolver_resolve(r1, stmt.superclass[1]) IN
            IF r2.res.kind # "ok" THEN r2
            ELSE Resolver_class_scopes(r2, stmt, enclosing_class)

\* Resolver::resolve: Node::Expr -> visit_expr, Node::Stmt -> visit_stmt.
Resolver_resolve(rs, node) ==
    CASE node.k = "Variable" -> Resolver_visit_var_expr(rs, node)
      [] node.k = "Assign" -> Resolver_visit_assign_expr(rs, node)
      [] node.k = "Binary" -> Resolver_resolve_all(rs, <<node.left, node.right>>, 1)
      [] node.k = "Call" -> Resolver_resolve_all(rs, <<node.callee>> \o node.arguments, 1)
      [] node.k = "Grouping" -> Resolver_resolve(rs, node.expression)
      [] node.k = "Literal" -> SetRes(rs, Ok(Unit))
      [] node.k = "Logical" -> Resolver_resolve_all(rs, <<node.left, node.right>>, 1)
      [] node.k = "Unary" -> Resolver_resolve(rs, node.right)
      [] node.k = "Get" -> Resolver_resolve(rs, node.object)
      [] node.k = "Set" -> Resolver_resolve_all(rs, <<node.value, node.object>>, 1)
      [] node.k = "Super" -> Resolver_visit_super_expr(rs, node)
      [] node.k = "This" -> Resolver_visit_this_expr(rs, node)
      [] node.k \in {"Lambda", "Comma"} -> SetRes(rs, Err("UnexpectedExpr"))
      [] node.k = "Block" -> Resolver_visit_block_stmt(rs, node)
      [] node.k = "Var" -> Resolver_visit_var_stmt(rs, node)
      [] node.k = "Function" -> Resolver_visit_function_stmt(rs, node)
      [] node.k = "Expression" -> Resolver_resolve(rs, node.expression)
      [] node.k = "If" -> Resolver_visit_if_stmt(rs, node)
      [] node.k = "Print" -> Resolver_resolve(rs, node.expression)
      [] node.k = "Return" -> Resolver_visit_return_stmt(rs, node)
      [] node.k = "While" -> Resolver_visit_while_stmt(rs, node)
      [] node.k = "Class" -> Resolver_visit_class_stmt(rs, node)
      [] node.k = "Break" -> SetRes(rs, Err("UnexpectedStmt"))

\* ------------------------------------------------------------- programs

\* Shorthands for the literals and references of the programs below.
N(n) == Literal(Number(n))
S(c) == Literal(String(<<c>>))
T == Literal(Bool(TRUE))
Nil == Literal(Null)
V(name, site) == Variable(name, site)
CallV(name, site) == Call(Variable(name, site), << >>)

\* The statements a program of the pool is built from, for the statement at
\* position p; its reference sites are numbered from 10 * p.
Pool(p) ==
    LET b == 10 * p IN
    { Stmt_Var("a", <<N(1)>>),                                  \* var a = 1;
      Stmt_Print(V("a", b + 1)),                                \* print a;
      Stmt_Block(<<Stmt_Var("a", <<N(2)>>),
                   Stmt_Print(V("a", b + 1))>>),                \* { var a = 2; print a; }
      Stmt_Block(<<Stmt_Var("a", <<N(3)>>),
                   Stmt_Block(<<Stmt_Print(V("a", b + 1))>>)>>),\* { var a = 3; { print a; } }
      Stmt_Block(<<Stmt_Var("a", <<V("a", b + 1)>>)>>),         \* { var a = a; }
      Stmt_Block(<<Stmt_Var("a", <<N(1)>>),
                   Stmt_Var("b", <<N(2)>>)>>),                  \* { var a = 1; var b = 2; }
      Stmt_Return(<<N(1)>>),                                    \* return 1;
      Stmt_While(T, Stmt_Break),                                \* while (true) break;
      Stmt_Print(Binary(N(1), "+", S("a"))) }                   \* print 1 + "a";

RECURSIVE PoolPrograms(_)
PoolPrograms(len) ==
    IF len = 0 THEN {<< >>}
    ELSE {Append(prog, stmt) : prog \in PoolPrograms(len - 1), stmt \in Pool(len)}

\* The programs without classes, by name; the comment before each is its text.
ScenarioProgram ==
    LET
        \* var a = 1; { var a = 2; print a; } print a;
        P_shadow ==
            << Stmt_Var("a", <<N(1)>>),
               Stmt_Block(<<Stmt_Var("a", <<N(2)>>), Stmt_Print(V("a", 1))>>),
               Stmt_Print(V("a", 2)) >>

        \* { var a = 1; { var a = 2; print a; } { print a; } }
        P_shadow_sibling ==
            << Stmt_Block(<<Stmt_Var("a", <<N(1)>>),
                            Stmt_Block(<<Stmt_Var("a", <<N(2)>>), Stmt_Print(V("a", 1))>>),
                            Stmt_Block(<<Stmt_Print(V("a", 2))>>)>>) >>

        \* { var a = 1; { var a = 2; print a; } print a; }
        P_shadow_local ==
            << Stmt_Block(<<Stmt_Var("a", <<N(1)>>),
                            Stmt_Block(<<Stmt_Var("a", <<N(2)>>), Stmt_Print(V("a", 1))>>),
                            Stmt_Print(V("a", 2))>>) >>

        \* { var a = 1; { print a; } print a; }
        P_two_depths ==
            << Stmt_Block(<<Stmt_Var("a", <<N(1)>>),
                            Stmt_Block(<<Stmt_Print(V("a", 1))>>),
                            Stmt_Print(V("a", 2))>>) >>

        \* fun makeCounter() { var i = 0; fun count() { i = i + 1; return i; } return count; }
        MakeCounter ==
            Stmt_Function("makeCounter", << >>,
                << Stmt_Var("i", <<N(0)>>),
                   Stmt_Function("count", << >>,
                       << Stmt_Expression(Assign("i", 1, Binary(V("i", 2), "+", N(1)))),
                          Stmt_Return(<<V("i", 3)>>) >>),
                   Stmt_Return(<<V("count", 4)>>) >>)

        \* makeCounter; var c = makeCounter(); print c(); print c();
        P_counter ==
            << MakeCounter,
               Stmt_Var("c", <<CallV("makeCounter", 5)>>),
               Stmt_Print(CallV("c", 6)),
               Stmt_Print(CallV("c", 7)) >>

        \* P_counter; { var i = 7; print i; }
        P_counter_block ==
            P_counter \o << Stmt_Block(<<Stmt_Var("i", <<N(7)>>), Stmt_Print(V("i", 8))>>) >>

        \* var s; var g;
        \* fun make() { var i = 0; fun set() { i = 5; } fun get() { return i; } s = set; g = get; }
        \* make(); s(); print g();
        P_shared ==
            << Stmt_Var("s", << >>),
               Stmt_Var("g", << >>),
               Stmt_Function("make", << >>,
                   << Stmt_Var("i", <<N(0)>>),
                      Stmt_Function("set", << >>, <<Stmt_Expression(Assign("i", 1, N(5)))>>),
                      Stmt_Function("get", << >>, <<Stmt_Return(<<V("i", 2)>>)>>),
                      Stmt_Expression(Assign("s", 3, V("set", 4))),
                      Stmt_Expression(Assign("g", 5, V("get", 6))) >>),
               Stmt_Expression(CallV("make", 7)),
               Stmt_Expression(CallV("s", 8)),
               Stmt_Print(CallV("g", 9)) >>

        \* var x = 1; fun show() { print x; } fun other() { var x = 2; show(); print x; } other();
        P_lexical ==
            << Stmt_Var("x", <<N(1)>>),
               Stmt_Function("show", << >>, <<Stmt_Print(V("x", 1))>>),
               Stmt_Function("other", << >>,
                   << Stmt_Var("x", <<N(2)>>),
                      Stmt_Expression(CallV("show", 2)),
                      Stmt_Print(V("x", 3)) >>),
               Stmt_Expression(CallV("other", 4)) >>

        \* fun f() { while (true) { if (true) { { return 7; } } } } print f(); print 8;
        P_nested_return ==
            << Stmt_Function("f", << >>,
                   << Stmt_While(T, Stmt_Block(
                          <<Stmt_If(T, Stmt_Block(<<Stmt_Block(<<Stmt_Return(<<N(7)>>)>>)>>),
                                    << >>)>>)) >>),
               Stmt_Print(CallV("f", 1)),
               Stmt_Print(N(8)) >>

        \* fun g() { print 1; } print g();
        P_fun_normal ==
            << Stmt_Function("g", << >>, <<Stmt_Print(N(1))>>),
               Stmt_Print(CallV("g", 1)) >>

        \* fun h() { { print 1 + "a"; } } print h(); print 2;
        P_fun_error ==
            << Stmt_Function("h", << >>,
                   <<Stmt_Block(<<Stmt_Print(Binary(N(1), "+", S("a")))>>)>>),
               Stmt_Print(CallV("h", 1)),
               Stmt_Print(N(2)) >>

        \* var g; while (true) { g = fun () { break; }; g(); print 1; } print 2;
        P_lambda_break ==
            << Stmt_Var("g", << >>),
               Stmt_While(T, Stmt_Block(
                   << Stmt_Expression(Assign("g", 1, Lambda(<< >>, <<Stmt_Break>>))),
                      Stmt_Expression(CallV("g", 2)),
                      Stmt_Print(N(1)) >>)),
               Stmt_Print(N(2)) >>

        \* var i = 0; while (i < 2) { while (true) break; print i; i = i + 1; } print 9;
        P_break_nested ==
            << Stmt_Var("i", <<N(0)>>),
               Stmt_While(Binary(V("i", 1), "<", N(2)), Stmt_Block(
                   << Stmt_While(T, Stmt_Break),
                      Stmt_Print(V("i", 2)),
                      Stmt_Expression(Assign("i", 3, Binary(V("i", 4), "+", N(1)))) >>)),
               Stmt_Print(N(9)) >>

        \* var i = 0; while (i < 2) { print i; i = i + 1; }
        P_while ==
            << Stmt_Var("i", <<N(0)>>),
               Stmt_While(Binary(V("i", 1), "<", N(2)), Stmt_Block(
                   << Stmt_Print(V("i", 2)),
                      Stmt_Expression(Assign("i", 3, Binary(V("i", 4), "+", N(1)))) >>)) >>

        \* print 0; { var a = a; }
        P_self_init ==
            << Stmt_Print(N(0)),
               Stmt_Block(<<Stmt_Var("a", <<V("a", 1)>>)>>) >>

        \* print 0; { var b = 1; print b; var a = a + b; }
        P_self_init_late ==
            << Stmt_Print(N(0)),
               Stmt_Block(<< Stmt_Var("b", <<N(1)>>),
                             Stmt_Print(V("b", 1)),
                             Stmt_Var("a", <<Binary(V("a", 2), "+", V("b", 3))>>) >>) >>

        \* fun f() { while (true) { if (true) { { return 7; } } } } print f();
        \* fun g() { print 1; } print g();
        \* fun h() { { print 1 + "a"; } } print h();
        P_calls ==
            << P_nested_return[1],
               Stmt_Print(CallV("f", 1)),
               P_fun_normal[1],
               Stmt_Print(CallV("g", 2)),
               P_fun_error[1],
               Stmt_Print(CallV("h", 3)) >>

        \* { var a = 1; a = 2; print a; }
        P_local_assign ==
            << Stmt_Block(<< Stmt_Var("a", <<N(1)>>),
                             Stmt_Expression(Assign("a", 1, N(2))),
                             Stmt_Print(V("a", 2)) >>) >>

        \* { var i = 0; while (i < 2) i = i + 1; print i; }
        P_local_loop ==
            << Stmt_Block(<< Stmt_Var("i", <<N(0)>>),
                             Stmt_While(Binary(V("i", 1), "<", N(2)),
                                        Stmt_Expression(Assign("i", 2, Binary(V("i", 3), "+", N(1))))),
                             Stmt_Print(V("i", 4)) >>) >>
    IN
       [ shadow |-> P_shadow,
         shadow_sibling |-> P_shadow_sibling,
         shadow_local |-> P_shadow_local,
         two_depths |-> P_two_depths,
         counter |-> P_counter,
         counter_block |-> P_counter_block,
         shared |-> P_shared,
         lexical |-> P_lexical,
         nested_return |-> P_nested_return,
         fun_normal |-> P_fun_normal,
         fun_error |-> P_fun_error,
         lambda_break |-> P_lambda_break,
         break_nested |-> P_break_nested,
         while |-> P_while,
         self_init |-> P_self_init,
         self_init_late |-> P_self_init_late,
         calls |-> P_calls,
         local_assign |-> P_local_assign,
         local_loop |-> P_local_loop ]

\* The programs with classes, by name; the comment before each is its text.
ClassProgram ==
    [
      \* class A { init(v) { this.v = v; return; } }  class B < A {}
      \* var b = B(4); print b.v;
      class_init |->
        << Stmt_Class("A", << >>,
               <<Stmt_Function("init", <<"v">>,
                     <<Stmt_Expression(Set(This(1), "v", V("v", 2))),
                       Stmt_Return(<< >>)>>)>>),
           Stmt_Class("B", <<V("A", 3)>>, << >>),
           Stmt_Var("b", <<Call(V("B", 4), <<N(4)>>)>>),
           Stmt_Print(Get(V("b", 5), "v")) >>,
      \* class A {}  var a = A(); a.x = 3; print a.x;
      class_noinit |->
        << Stmt_Class("A", << >>, << >>),
           Stmt_Var("a", <<Call(V("A", 1), << >>)>>),
           Stmt_Expression(Set(V("a", 2), "x", N(3))),
           Stmt_Print(Get(V("a", 3), "x")) >>,
      \* class A { init() { return 5; } }  var a = A(); a.x = 3; print a.x;
      init_returns |->
        << Stmt_Class("A", << >>,
               <<Stmt_Function("init", << >>, <<Stmt_Return(<<N(5)>>)>>)>>),
           Stmt_Var("a", <<Call(V("A", 1), << >>)>>),
           Stmt_Expression(Set(V("a", 2), "x", N(3))),
           Stmt_Print(Get(V("a", 3), "x")) >>,
      \* class A { init() { this.x = 1 + "a"; } }  var a = A(); print 9;
      init_fails |->
        << Stmt_Class("A", << >>,
               <<Stmt_Function("init", << >>,
                     <<Stmt_Expression(Set(This(1), "x", Binary(N(1), "+", S("a"))))>>)>>),
           Stmt_Var("a", <<Call(V("A", 2), << >>)>>),
           Stmt_Print(N(9)) >>,
      \* class A { m() { this.x = 1; } }
      \* class B < A { m() { super.m(); this.y = 2; } }
      \* var b = B(); b.m(); print b.x; print b.y;
      super |->
        << Stmt_Class("A", << >>,
               <<Stmt_Function("m", << >>,
                     <<Stmt_Expression(Set(This(1), "x", N(1)))>>)>>),
           Stmt_Class("B", <<V("A", 2)>>,
               <<Stmt_Function("m", << >>,
                     <<Stmt_Expression(Call(Super(3, "m"), << >>)),
                       Stmt_Expression(Set(This(4), "y", N(2)))>>)>>),
           Stmt_Var("b", <<Call(V("B", 5), << >>)>>),
           Stmt_Expression(Call(Get(V("b", 6), "m"), << >>)),
           Stmt_Print(Get(V("b", 7), "x")),
           Stmt_Print(Get(V("b", 8), "y")) >>,
      \* As P_super, with B's m() { { super.m(); } this.y = 2; } and a second
      \* method n() { super.m(); } after it.
      super_depths |->
        << Stmt_Class("A", << >>,
               <<Stmt_Function("m", << >>,
                     <<Stmt_Expression(Set(This(1), "x", N(1)))>>)>>),
           Stmt_Class("B", <<V("A", 2)>>,
               <<Stmt_Function("m", << >>,
                     <<Stmt_Block(<<Stmt_Expression(Call(Super(3, "m"), << >>))>>),
                       Stmt_Expression(Set(This(4), "y", N(2)))>>),
                 Stmt_Function("n", << >>,
                     <<Stmt_Expression(Call(Super(9, "m"), << >>))>>)>>),
           Stmt_Var("b", <<Call(V("B", 5), << >>)>>),
           Stmt_Expression(Call(Get(V("b", 6), "m"), << >>)),
           Stmt_Print(Get(V("b", 7), "x")),
           Stmt_Print(Get(V("b", 8), "y")) >>,
      \* class A {}  fun f() {}  var x = A(); var y = A();
      \* print x == x; print A == A; print f == f; print x == y;
      identity |->
        << Stmt_Class("A", << >>, << >>),
           Stmt_Function("f", << >>, << >>),
           Stmt_Var("x", <<Call(V("A", 1), << >>)>>),
           Stmt_Var("y", <<Call(V("A", 2), << >>)>>),
           Stmt_Print(Binary(V("x", 3), "==", V("x", 4))),
           Stmt_Print(Binary(V("A", 5), "==", V("A", 6))),
           Stmt_Print(Binary(V("f", 7), "==", V("f", 8))),
           Stmt_Print(Binary(V("x", 9), "==", V("y", 10))) >>,
      \* print 0; print this;
      this_outside |->
        << Stmt_Print(N(0)), Stmt_Print(This(1)) >>,
      \* print 0; fun f() { print this; }
      this_in_function |->
        << Stmt_Print(N(0)), Stmt_Function("f", << >>, <<Stmt_Print(This(1))>>) >>,
      \* print 0; super.m();
      super_outside |->
        << Stmt_Print(N(0)), Stmt_Expression(Call(Super(1, "m"), << >>)) >>,
      \* class A { m() { super.m(); } }  print 0; A().m();
      super_no_superclass |->
        << Stmt_Class("A", << >>,
               <<Stmt_Function("m", << >>,
                     <<Stmt_Expression(Call(Super(1, "m"), << >>))>>)>>),
           Stmt_Print(N(0)),
           Stmt_Expression(Call(Get(Call(V("A", 2), << >>), "m"), << >>)) >>,
      \* fun f(a) { print 5; print a; }  f();
      arity_missing |->
        << Stmt_Function("f", <<"a">>, <<Stmt_Print(N(5)), Stmt_Print(V("a", 1))>>),
           Stmt_Expression(Call(V("f", 2), << >>)) >>,
      \* fun f() { print 5; }  f(1, 2);
      arity_surplus |->
        << Stmt_Function("f", << >>, <<Stmt_Print(N(5))>>),
           Stmt_Expression(Call(V("f", 1), <<N(1), N(2)>>)) >>,
      \* class A { init(v) { this.v = v; } }  var a = A(); print 9;
      arity_class |->
        << Stmt_Class("A", << >>,
               <<Stmt_Function("init", <<"v">>,
                     <<Stmt_Expression(Set(This(1), "v", V("v", 2)))>>)>>),
           Stmt_Var("a", <<Call(V("A", 3), << >>)>>),
           Stmt_Print(N(9)) >>
    ]

ClassScenarios == {ClassProgram[n] : n \in DOMAIN ClassProgram}

Scenarios == {ScenarioProgram[n] : n \in DOMAIN ScenarioProgram}

\* fun f() {} var r = <left> <operator> <right>;   and   var r = -<right>;
OperatorProgram(expr) ==
    << Stmt_Function("f", << >>, << >>), Stmt_Var("r", <<expr>>) >>

OperatorPrograms ==
    LET Operands == {N(6), N(0), S("a"), T, Nil, V("f", 1)}
        BinaryOperators == {"-", "/", "*", "+", ">", ">=", "<", "<="}
    IN {OperatorProgram(Binary(l, o, r)) :
            l \in Operands, o \in BinaryOperators, r \in Operands}
       \cup {OperatorProgram(Unary("-", r)) : r \in Operands}

\* fun f() {} var r = <left> == <right>;   and   ... != ...;   0 / 0 is NaN.
EqualityPrograms ==
    LET NaNExpr == Binary(N(0), "/", N(0))
        EqualityOperands ==
            {N(6), N(0), NaNExpr, S("a"), S("b"), T, Literal(Bool(FALSE)), Nil, V("f", 1)}
        EqualityOperators == {"==", "!="}
    IN {OperatorProgram(Binary(l, o, r)) :
            l \in EqualityOperands, o \in EqualityOperators, r \in EqualityOperands}

\* fun f() {} class K {} var k = K(); var x = <operand>;  followed by one of
\*   if (x) print 1; else print 0;      while (x) { print 1; x = nil; }
\*   var r = !x;      var r = x or 2;      var r = x and 2;
TruthPrograms ==
    LET operands == {Nil, Literal(Bool(FALSE)), T, N(0), N(6), Literal(String(<< >>)),
                     S("a"), V("f", 2), V("K", 2), V("k", 2)}
        contexts ==
            { Stmt_If(V("x", 3), Stmt_Print(N(1)), <<Stmt_Print(N(0))>>),
              Stmt_While(V("x", 3),
                         Stmt_Block(<<Stmt_Print(N(1)),
                                      Stmt_Expression(Assign("x", 4, Nil))>>)),
              Stmt_Var("r", <<Unary("!", V("x", 3))>>),
              Stmt_Var("r", <<Logical(V("x", 3), "or", N(2))>>),
              Stmt_Var("r", <<Logical(V("x", 3), "and", N(2))>>) }
    IN { << Stmt_Function("f", << >>, << >>),
            Stmt_Class("K", << >>, << >>),
            Stmt_Var("k", <<Call(V("K", 1), << >>)>>),
            Stmt_Var("x", <<operand>>),
            context >> : operand \in operands, context \in contexts }

\* var n = 0; fun g() { n = 1; return 3; } var x = <left>;
\* var r = x <or|and> <right>;   with <right> one of  n = 1,  g(),  1 + "a"
LogicalPrograms ==
    { << Stmt_Var("n", <<N(0)>>),
         Stmt_Function("g", << >>,
             <<Stmt_Expression(Assign("n", 1, N(1))), Stmt_Return(<<N(3)>>)>>),
         Stmt_Var("x", <<left>>),
         Stmt_Var("r", <<Logical(V("x", 2), operator, right)>>) >> :
      left \in {Nil, Literal(Bool(FALSE)), T, N(0), S("a")},
      operator \in {"or", "and"},
      right \in {Assign("n", 3, N(1)), CallV("g", 3), Binary(N(1), "+", S("a"))} }

\* A scope that declares `a`, followed by one of nine uses of it:
\*   block      { var a = 1; <use> }
\*   function   fun g() { var a = 1; <use> }
\*   parameter  fun g(a) { <use> }
ScopeProgram ==
    LET use ==
          << << >>,                                                 \* (nothing)
             <<Stmt_Print(V("a", 1))>>,                             \* print a;
             <<Stmt_Expression(Assign("a", 1, N(2)))>>,             \* a = 2;
             <<Stmt_Block(<<Stmt_Print(V("a", 1))>>)>>,             \* { print a; }
             <<Stmt_Function("f", << >>, <<Stmt_Print(V("a", 1))>>),
               Stmt_Expression(CallV("f", 2))>>,          \* fun f() { print a; } f();
             <<Stmt_Var("a", <<N(2)>>), Stmt_Print(V("a", 1))>>,    \* var a = 2; print a;
             <<Stmt_Print(V("a", 1)), Stmt_Var("a", <<N(2)>>)>>,    \* print a; var a = 2;
             <<Stmt_Block(<<Stmt_Var("a", <<N(5)>>),
                            Stmt_Print(V("a", 1))>>)>>,     \* { var a = 5; print a; }
             <<Stmt_Expression(Assign("a", 1, Binary(V("a", 2), "+", N(1))))>>
                                                                    \* a = a + 1;
          >>
        scope(context, body) ==
            CASE context = "block" ->
                   <<Stmt_Block(<<Stmt_Var("a", <<N(1)>>)>> \o body)>>
              [] context = "function" ->
                   <<Stmt_Function("g", << >>, <<Stmt_Var("a", <<N(1)>>)>> \o body)>>
              [] context = "parameter" ->
                   <<Stmt_Function("g", <<"a">>, body)>>
    IN [x \in {"block", "function", "parameter"} \X DOMAIN use |-> scope(x[1], use[x[2]])]

Programs ==
    Scenarios \cup ClassScenarios \cup OperatorPrograms \cup EqualityPrograms
    \cup TruthPrograms \cup LogicalPrograms
    \cup {ScopeProgram[x] : x \in DOMAIN ScopeProgram}
    \cup UNION {PoolPrograms(len) : len \in 1..MaxProgLen}

\* --------------------------------------------------------------- parser

\* Token; `line` is left out. literal is << >> (None) or <<Literal>>.
Token(token_type, literal) == [token_type |-> token_type, literal |-> literal]

\* The state of a Parser or ExprParser: the TokenStream (tokens, current,
\* counting from 0), the errors recorded so far, in_loop, and the value the
\* function just left returned (res). halt is "panic" once an unwrap() has
\* failed and "diverge" once a loop repeats without end, "none" otherwise.
Parser_new(tokens) ==
    [tokens |-> tokens, current |-> 0, errors |-> << >>, in_loop |-> FALSE,
     halt |-> "none", res |-> << >>]

peek_token(ps) ==
    IF ps.current < Len(ps.tokens) THEN ps.tokens[ps.current + 1]
    ELSE Token("EOF", << >>)

\* TokenStream::peek, and check as `peek(ps) = token_type`.
peek(ps) == peek_token(ps).token_type

\* TokenStream::advance; the token it returns is previous(ps') unless the
\* stream was at its end.
advance(ps) ==
    IF ps.current < Len(ps.tokens) THEN [ps EXCEPT !.current = @ + 1] ELSE ps

previous(ps) ==
    IF ps.current >= 1 /\ ps.current <= Len(ps.tokens) THEN ps.tokens[ps.current]
    ELSE Token("INVALID", << >>)

\* TokenStream::is_eof is called by Parser and defined nowhere in the
\* sources: taken to say that no token is left.
is_eof(ps) == peek(ps) = "EOF"

\* Parser::error and ExprParser::error.
error(ps, token, message) ==
    [ps EXCEPT !.errors = Append(@, [token |-> token, message |-> message])]

\* Parser::consume; res is << >> (None) or <<token>>.
consume(ps, token_type, message) ==
    IF peek(ps) = token_type
    THEN [advance(ps) EXCEPT !.res = <<peek_token(ps)>>]
    ELSE [error(ps, peek_token(ps), message) EXCEPT !.res = << >>]

RECURSIVE synchronize_loop(_)
synchronize_loop(ps) ==
    IF peek(ps) = "EOF" THEN ps
    ELSE IF previous(ps).token_type = "SEMICOLON" THEN ps
    ELSE IF peek(ps) \in {"CLASS", "FUN", "VAR", "FOR", "IF", "WHILE", "PRINT", "RETURN"}
         THEN advance(ps)
    ELSE synchronize_loop(advance(ps))

synchronize(ps) == synchronize_loop(advance(ps))

\* The functions of ExprParser (expr_parser.rs), fn naming the function:
\* each takes the parser's state ps and its further arguments in the
\* record a, and returns the state with res set to the Expr it built.
RECURSIVE ExprParser_rule(_, _, _)
ExprParser_rule(ps, fn, a) ==
    CASE fn = "expression" -> (
          ExprParser_rule(ps, "comma", << >>) )

      \* while match_tokens(types) { operator = previous(); right = fn();
      \*                             expr = Binary or Comma }
      [] fn = "operators" -> (
          IF peek(ps) \notin a.types THEN ps
          ELSE CHOOSE r \in
            { ExprParser_rule([p EXCEPT !.res =
                            IF peek(ps) = "COMMA" THEN Comma(ps.res, p.res)
                            ELSE Binary(ps.res, peek(ps), p.res)], "operators", [types |-> a.types, fn |-> a.fn])
              : p \in {ExprParser_rule(advance(ps), a.fn, << >>)} } : TRUE )

      \* The operator at the start of comparison, term or factor: the
      \* error, `let _ = self.factor()`, and Literal::Null.
      [] fn = "missing" -> (
          CHOOSE r \in
            { [p EXCEPT !.res = Literal(Null)]
              : p \in {ExprParser_rule(error(advance(ps), peek_token(ps),
                                    "Missing left-hand operand"), "factor", << >>)} } : TRUE )

      [] fn = "comma" -> (
          CHOOSE r \in
            { ExprParser_rule(p, "operators", [types |-> {"COMMA"}, fn |-> "equality"])
              : p \in {ExprParser_rule(ps, "equality", << >>)} } : TRUE )

      [] fn = "equality" -> (
          CHOOSE r \in
            { ExprParser_rule(p,
                "operators", [types |-> {"BANG_EQUAL", "EQUAL_EQUAL"}, fn |-> "comparison"])
              : p \in {ExprParser_rule(ps, "comparison", << >>)} } : TRUE )

      [] fn = "comparison" -> (
          IF peek(ps) \in {"GREATER", "GREATER_EQUAL", "LESS", "LESS_EQUAL"}
          THEN ExprParser_rule(ps, "missing", << >>)
          ELSE CHOOSE r \in
            { ExprParser_rule(p,
                "operators", [types |-> {"GREATER", "GREATER_EQUAL", "LESS", "LESS_EQUAL"}, fn |-> "term"])
              : p \in {ExprParser_rule(ps, "term", << >>)} } : TRUE )

      [] fn = "term" -> (
          IF peek(ps) \in {"PLUS", "MINUS"} THEN ExprParser_rule(ps, "missing", << >>)
          ELSE CHOOSE r \in
            { ExprParser_rule(p, "operators", [types |-> {"MINUS", "PLUS"}, fn |-> "factor"])
              : p \in {ExprParser_rule(ps, "factor", << >>)} } : TRUE )

      [] fn = "factor" -> (
          IF peek(ps) \in {"SLASH", "STAR"} THEN ExprParser_rule(ps, "missing", << >>)
          ELSE CHOOSE r \in
            { ExprParser_rule(p, "operators", [types |-> {"SLASH", "STAR"}, fn |-> "unary"])
              : p \in {ExprParser_rule(ps, "unary", << >>)} } : TRUE )

      [] fn = "unary" -> (
          IF peek(ps) \in {"BANG", "MINUS"}
          THEN CHOOSE r \in
            { [p EXCEPT !.res = Unary(peek(ps), p.res)]
              : p \in {ExprParser_rule(advance(ps), "unary", << >>)} } : TRUE
          ELSE ExprParser_rule(ps, "primary", << >>) )

      [] fn = "primary" -> (
          CASE peek(ps) = "FALSE" -> [advance(ps) EXCEPT !.res = Literal(Bool(FALSE))]
            [] peek(ps) = "TRUE" -> [advance(ps) EXCEPT !.res = Literal(Bool(TRUE))]
            [] peek(ps) \in {"NUMBER", "STRING"} ->
                 [advance(ps) EXCEPT !.res = Literal(peek_token(ps).literal[1])]
            [] peek(ps) = "LEFT_PAREN" ->
                 CHOOSE r \in
                   { IF peek(p) = "RIGHT_PAREN"
                     THEN [advance(p) EXCEPT !.res = Grouping(p.res)]
                     ELSE [error(p, peek_token(p), "Expected ')' after expression.")
                             EXCEPT !.res = Grouping(p.res)]
                     : p \in {ExprParser_rule(advance(ps), "expression", << >>)} } : TRUE
            [] OTHER ->
                 [error(ps, peek_token(ps), "Expected expression.")
                    EXCEPT !.res = Literal(Null)] )

\* ExprParser::parse on ExprParser::new(tokens): the state parse leaves, res
\* being the Result<Expr> it returns.
ExprParser_parse(tokens) ==
    CHOOSE r \in
      { [p EXCEPT !.res = IF p.errors # << >> THEN Err(p.errors[1]) ELSE Ok(p.res)]
        : p \in {ExprParser_rule(Parser_new(tokens), "expression", << >>)} } : TRUE

\* An iteration of a `while` loop of the Parser that began in state ps and
\* ended in state p repeats without end: it consumed no token, and what the
\* next one sees (has_errors included) is what this one saw.
repeats(ps, p) ==
    /\ p.current = ps.current
    /\ p.in_loop = ps.in_loop
    /\ (p.errors = << >>) = (ps.errors = << >>)

\* The functions of Parser (parser.rs), fn naming the function: each takes
\* the parser's state ps and its further arguments and locals in the record
\* a, and returns the state with res set to what the function returns: an
\* Expr, a Vec, or an Option<Stmt> as << >> or <<stmt>>. A state that has
\* halted is handed back unchanged by every caller. `parse` returns the
\* state it leaves, res being the Result<Vec<Stmt>>.
RECURSIVE Parser_rule(_, _, _)
Parser_rule(ps, fn, a) ==
    CASE fn = "expression" -> (
          Parser_rule(ps, "comma", << >>) )

      \* while match_tokens(types) { operator = previous(); right = fn();
      \*                             expr = Comma, Logical or Binary }
      [] fn = "operators" -> (
          IF ps.halt # "none" \/ peek(ps) \notin a.types THEN ps
          ELSE CHOOSE r \in
            { IF p.halt # "none" THEN p
              ELSE Parser_rule([p EXCEPT !.res =
                      CASE peek(ps) = "COMMA" -> Comma(ps.res, p.res)
                        [] peek(ps) \in {"OR", "AND"} -> Logical(ps.res, peek(ps), p.res)
                        [] OTHER -> Binary(ps.res, peek(ps), p.res)], "operators", [types |-> a.types, fn |-> a.fn])
              : p \in {Parser_rule(advance(ps), a.fn, << >>)} } : TRUE )

      \* The operator at the start of comparison, term or factor: the
      \* error, `let _ = self.factor()`, and Literal::Null.
      [] fn = "missing" -> (
          CHOOSE r \in
            { IF p.halt # "none" THEN p ELSE [p EXCEPT !.res = Literal(Null)]
              : p \in {Parser_rule(error(advance(ps), peek_token(ps),
                                    "Missing left-hand operand"), "factor", << >>)} } : TRUE )

      [] fn = "comma" -> (
          CHOOSE r \in
            { Parser_rule(p, "operators", [types |-> {"COMMA"}, fn |-> "assignment"])
              : p \in {Parser_rule(ps, "assignment", << >>)} } : TRUE )

      [] fn = "assignment" -> (
          CHOOSE r \in
            { IF p.halt # "none" \/ peek(p) # "EQUAL" THEN p
              ELSE CHOOSE r2 \in
                { IF q.halt # "none" THEN q
                  ELSE IF p.res.k = "Variable"
                  THEN [q EXCEPT !.res = Assign(p.res.name, p.res.site, q.res)]
                  ELSE [error(q, peek_token(p), "Invalid assignment target.")
                          EXCEPT !.res = p.res]
                  : q \in {Parser_rule(advance(p), "assignment", << >>)} } : TRUE
              : p \in {Parser_rule(ps, "or", << >>)} } : TRUE )

      [] fn = "or" -> (
          CHOOSE r \in { Parser_rule(p,
              "operators", [types |-> {"OR"}, fn |-> "and"]) : p \in {Parser_rule(ps, "and", << >>)} } : TRUE )

      [] fn = "and" -> (
          CHOOSE r \in { Parser_rule(p,
              "operators", [types |-> {"AND"}, fn |-> "equality"]) : p \in {Parser_rule(ps, "equality", << >>)} } : TRUE )

      [] fn = "equality" -> (
          CHOOSE r \in
            { Parser_rule(p,
                "operators", [types |-> {"BANG_EQUAL", "EQUAL_EQUAL"}, fn |-> "comparison"])
              : p \in {Parser_rule(ps, "comparison", << >>)} } : TRUE )

      [] fn = "comparison" -> (
          IF peek(ps) \in {"GREATER", "GREATER_EQUAL", "LESS", "LESS_EQUAL"}
          THEN Parser_rule(ps, "missing", << >>)
          ELSE CHOOSE r \in
            { Parser_rule(p,
                "operators", [types |-> {"GREATER", "GREATER_EQUAL", "LESS", "LESS_EQUAL"}, fn |-> "term"])
              : p \in {Parser_rule(ps, "term", << >>)} } : TRUE )

      [] fn = "term" -> (
          IF peek(ps) \in {"PLUS", "MINUS"} THEN Parser_rule(ps, "missing", << >>)
          ELSE CHOOSE r \in
            { Parser_rule(p, "operators", [types |-> {"MINUS", "PLUS"}, fn |-> "factor"])
              : p \in {Parser_rule(ps, "factor", << >>)} } : TRUE )

      [] fn = "factor" -> (
          IF peek(ps) \in {"SLASH", "STAR"} THEN Parser_rule(ps, "missing", << >>)
          ELSE CHOOSE r \in
            { Parser_rule(p, "operators", [types |-> {"SLASH", "STAR"}, fn |-> "unary"])
              : p \in {Parser_rule(ps, "unary", << >>)} } : TRUE )

      [] fn = "unary" -> (
          IF peek(ps) \in {"BANG", "MINUS"}
          THEN CHOOSE r \in
            { IF p.halt # "none" THEN p ELSE [p EXCEPT !.res = Unary(peek(ps), p.res)]
              : p \in {Parser_rule(advance(ps), "unary", << >>)} } : TRUE
          ELSE Parser_rule(ps, "call", << >>) )

      [] fn = "call" -> (
          CHOOSE r \in { Parser_rule(p, "call_loop", << >>) : p \in {Parser_rule(ps, "primary", << >>)} } : TRUE )

      \* loop { if match_tokens(LEFT_PAREN) { expr = finish_call(expr) } else break }
      [] fn = "call_loop" -> (
          IF ps.halt # "none" \/ peek(ps) # "LEFT_PAREN" THEN ps
          ELSE CHOOSE r \in
            { Parser_rule(p, "call_loop", << >>)
              : p \in {Parser_rule(advance(ps), "finish_call", [callee |-> ps.res])} } : TRUE )

      \* The argument loop of finish_call; res is the Vec.
      [] fn = "arguments" -> (
          CHOOSE r \in
            { IF p.halt # "none" THEN p
              ELSE IF peek(p) = "COMMA"
              THEN Parser_rule(advance(p), "arguments", [args |-> Append(a.args, p.res)])
              ELSE [p EXCEPT !.res = Append(a.args, p.res)]
              : p \in {Parser_rule(IF Len(a.args) >= 255
                         THEN error(ps, peek_token(ps),
                                    "Can't have more than 255 arguments.")
                         ELSE ps, "assignment", << >>)} } : TRUE )

      [] fn = "finish_call" -> (
          CHOOSE r \in
            { IF p.halt # "none" THEN p
              ELSE [consume(p, "RIGHT_PAREN", "Expect ')' after arguments.")
                      EXCEPT !.res = Call(a.callee, p.res)]
              : p \in {IF peek(ps) = "RIGHT_PAREN" THEN [ps EXCEPT !.res = << >>]
                       ELSE Parser_rule(ps, "arguments", [args |-> << >>])} } : TRUE )

      [] fn = "primary" -> (
          CASE peek(ps) = "FUN" -> Parser_rule(advance(ps), "lambda", << >>)
            [] peek(ps) = "FALSE" -> [advance(ps) EXCEPT !.res = Literal(Bool(FALSE))]
            [] peek(ps) = "TRUE" -> [advance(ps) EXCEPT !.res = Literal(Bool(TRUE))]
            [] peek(ps) \in {"NUMBER", "STRING"} ->
                 [advance(ps) EXCEPT !.res = Literal(peek_token(ps).literal[1])]
            [] peek(ps) = "IDENTIFIER" ->
                 [advance(ps) EXCEPT !.res = Variable(peek_token(ps), ps.current + 1)]
            [] peek(ps) = "LEFT_PAREN" ->
                 CHOOSE r \in
                   { IF p.halt # "none" THEN p
                     ELSE IF peek(p) = "RIGHT_PAREN"
                     THEN [advance(p) EXCEPT !.res = Grouping(p.res)]
                     ELSE [error(p, peek_token(p), "Expected ')' after expression.")
                             EXCEPT !.res = Grouping(p.res)]
                     : p \in {Parser_rule(advance(ps), "expression", << >>)} } : TRUE
            [] OTHER ->
                 [error(ps, peek_token(ps), "Expected expression.")
                    EXCEPT !.res = Literal(Null)] )

      \* The parameter loop of lambda (unwrap: a missing name panics) and
      \* of fun_declaration (`?`: a missing name returns None); res is
      \* << >> for that None and <<params>> otherwise.
      [] fn = "parameters" -> (
          LET p == consume(IF Len(a.params) >= 255
                           THEN error(ps, peek_token(ps),
                                      "Can't have more than 255 parameters.")
                           ELSE ps,
                           "IDENTIFIER", "Expect parameter name.")
          IN IF p.res = << >>
             THEN IF a.unwrap THEN [p EXCEPT !.halt = "panic"] ELSE p
             ELSE IF peek(p) = "COMMA"
             THEN Parser_rule(advance(p),
                 "parameters", [params |-> a.params \o p.res, unwrap |-> a.unwrap])
             ELSE [p EXCEPT !.res = <<a.params \o p.res>>] )

      \* What lambda and fun_declaration do after the parameters: `)`,
      \* `{`, and the body. res is the Lambda, or <<Stmt::Function>>.
      [] fn = "function_body" -> (
          CHOOSE r \in
            { IF p.halt # "none" THEN p
              ELSE [p EXCEPT !.res =
                      IF a.name = << >> THEN Lambda(a.params, p.res)
                      ELSE <<Stmt_Function(a.name[1], a.params, p.res)>>]
              : p \in {Parser_rule(consume(
                         consume(ps, "RIGHT_PAREN",
                                 "Expected ')' after function parameters"),
                         "LEFT_BRACE", "Expected '{' before function body"), "block", << >>)} } : TRUE )

      [] fn = "lambda" -> (
          CHOOSE r \in
            { IF p.halt # "none" THEN p ELSE Parser_rule(p,
                "function_body", [name |-> << >>, params |-> p.res[1]])
              : p \in {LET p1 == consume(ps, "LEFT_PAREN",
                                         "Expected '(' after function name")
                       IN IF peek(p1) = "RIGHT_PAREN"
                          THEN [p1 EXCEPT !.res = << << >> >>]
                          ELSE Parser_rule(p1,
                              "parameters", [params |-> << >>, unwrap |-> TRUE])} } : TRUE )

      \* ----- statement parsing methods
      [] fn = "declaration" -> (
          CHOOSE r \in
            { IF p.halt = "none" /\ p.res = << >> /\ p.errors # << >>
              THEN synchronize(p) ELSE p
              : p \in {CASE peek(ps) = "VAR" -> Parser_rule(advance(ps), "var_declaration", << >>)
                         [] peek(ps) = "FUN" -> Parser_rule(advance(ps),
                             "fun_declaration", [kind |-> "function"])
                         [] peek(ps) = "CLASS" -> Parser_rule(advance(ps), "class_declaration", << >>)
                         [] OTHER -> Parser_rule(ps, "statement", << >>)} } : TRUE )

      [] fn = "statement" -> (
          CASE peek(ps) = "FOR" -> Parser_rule(advance(ps), "for_stmt", << >>)
            [] peek(ps) = "PRINT" -> Parser_rule(advance(ps), "print_stmt", << >>)
            [] peek(ps) = "RETURN" -> Parser_rule(advance(ps), "return_stmt", << >>)
            [] peek(ps) = "WHILE" -> Parser_rule(advance(ps), "while_stmt", << >>)
            [] peek(ps) = "LEFT_BRACE" ->
                 CHOOSE r \in
                   { IF p.halt # "none" THEN p ELSE [p EXCEPT !.res = <<Stmt_Block(p.res)>>]
                     : p \in {Parser_rule(advance(ps), "block", << >>)} } : TRUE
            [] peek(ps) = "IF" -> Parser_rule(advance(ps), "if_stmt", << >>)
            [] peek(ps) = "BREAK" -> Parser_rule(advance(ps), "break_stmt", << >>)
            [] OTHER -> Parser_rule(ps, "expr_stmt", << >>) )

      [] fn = "block" -> (
          Parser_rule(ps, "block_loop", [statements |-> << >>]) )

      [] fn = "block_loop" -> (
          IF ~is_eof(ps) /\ peek(ps) # "RIGHT_BRACE"
          THEN CHOOSE r \in
            { IF p.halt # "none" THEN p
              ELSE IF repeats(ps, p) THEN [p EXCEPT !.halt = "diverge"]
              ELSE Parser_rule(p, "block_loop", [statements |-> a.statements \o p.res])
              : p \in {Parser_rule(ps, "declaration", << >>)} } : TRUE
          ELSE IF peek(ps) = "RIGHT_BRACE"
          THEN [advance(ps) EXCEPT !.res = a.statements]
          ELSE [error(ps, peek_token(ps), "Expect '}' after block declaration.")
                  EXCEPT !.res = a.statements] )

      [] fn = "var_declaration" -> (
          IF peek(ps) # "IDENTIFIER"
          THEN [error(ps, peek_token(ps), "Expect variable name.") EXCEPT !.res = << >>]
          ELSE CHOOSE r \in
            { IF p.halt # "none" THEN p
              ELSE IF peek(p) = "SEMICOLON"
              THEN [advance(p) EXCEPT !.res = <<Stmt_Var(peek_token(ps), p.res)>>]
              ELSE [error(p, peek_token(p), "Expect ';' after variable declaration.")
                      EXCEPT !.res = << >>]
              : p \in {IF peek(advance(ps)) = "EQUAL"
                       THEN CHOOSE r2 \in
                              { IF q.halt # "none" THEN q ELSE [q EXCEPT !.res = <<q.res>>]
                                : q \in {Parser_rule(advance(advance(ps)), "expression", << >>)} } : TRUE
                       ELSE [advance(ps) EXCEPT !.res = << >>]} } : TRUE )

      [] fn = "fun_declaration" -> (
          LET p0 == consume(ps, "IDENTIFIER", "Expect " \o a.kind \o " name.")
              p1 == consume(p0, "LEFT_PAREN", "Expected '(' after " \o a.kind \o " name")
          IN IF p0.res = << >> THEN p0
             ELSE CHOOSE r \in
               { IF p.res = << >> THEN p ELSE Parser_rule(p,
                   "function_body", [name |-> p0.res, params |-> p.res[1]])
                 : p \in {IF peek(p1) = "RIGHT_PAREN"
                          THEN [p1 EXCEPT !.res = << << >> >>]
                          ELSE Parser_rule(p1,
                              "parameters", [params |-> << >>, unwrap |-> FALSE])} } : TRUE )

      \* while !check(RIGHT_BRACE) && !is_eof() { methods.push(fun_declaration("method")?) }
      [] fn = "methods_loop" -> (
          IF peek(ps) # "RIGHT_BRACE" /\ ~is_eof(ps)
          THEN CHOOSE r \in
            { IF p.halt # "none" \/ p.res = << >> THEN p
              ELSE Parser_rule(p,
                  "methods_loop", [name |-> a.name, methods |-> a.methods \o p.res])
              : p \in {Parser_rule(ps, "fun_declaration", [kind |-> "method"])} } : TRUE
          ELSE [consume(ps, "RIGHT_BRACE", "Expect '}' after class body.")
                  EXCEPT !.res = <<Stmt_Class(a.name, << >>, a.methods)>>] )

      [] fn = "class_declaration" -> (
          LET p0 == consume(ps, "IDENTIFIER", "Expect class name.")
          IN IF p0.res = << >> THEN p0
             ELSE Parser_rule(consume(p0, "LEFT_BRACE", "Expected '{' after class name"),
                 "methods_loop", [name |-> p0.res[1], methods |-> << >>]) )

      [] fn = "print_stmt" -> (
          CHOOSE r \in
            { IF p.halt # "none" THEN p
              ELSE [consume(p, "SEMICOLON", "Expect ';' after expression.")
                      EXCEPT !.res = <<Stmt_Print(p.res)>>]
              : p \in {Parser_rule(ps, "expression", << >>)} } : TRUE )

      [] fn = "return_stmt" -> (
          CHOOSE r \in
            { IF p.halt # "none" THEN p
              ELSE [consume(p, "SEMICOLON", "Expect ';' after return value.")
                      EXCEPT !.res = <<Stmt_Return(p.res)>>]
              : p \in {IF peek(ps) # "SEMICOLON"
                       THEN CHOOSE r2 \in
                              { IF q.halt # "none" THEN q ELSE [q EXCEPT !.res = <<q.res>>]
                                : q \in {Parser_rule(ps, "expression", << >>)} } : TRUE
                       ELSE [ps EXCEPT !.res = << >>]} } : TRUE )

      [] fn = "while_stmt" -> (
          CHOOSE r \in
            { IF p.halt # "none" THEN p
              ELSE CHOOSE r2 \in
                { IF q.halt # "none" THEN q
                  ELSE [q EXCEPT !.in_loop = ps.in_loop,
                                 !.res = IF q.res = << >> THEN << >>
                                         ELSE <<Stmt_While(p.res, q.res[1])>>]
                  : q \in {Parser_rule([consume(p, "RIGHT_PAREN", "Expect ')' after condition.")
                                EXCEPT !.in_loop = TRUE], "statement", << >>)} } : TRUE
              : p \in {Parser_rule(consume(ps, "LEFT_PAREN",
                                          "Expect '(' after 'while'."), "expression", << >>)} } : TRUE )

      [] fn = "for_stmt" -> (
          CHOOSE r \in
            { IF p.halt # "none" THEN p ELSE Parser_rule(p,
                "for_condition", [initializer |-> p.res])
              : p \in {LET p1 == consume(ps, "LEFT_PAREN", "Expect '(' after 'for'.")
                       IN CASE peek(p1) = "SEMICOLON" -> [advance(p1) EXCEPT !.res = << >>]
                            [] peek(p1) = "VAR" -> Parser_rule(advance(p1), "var_declaration", << >>)
                            [] OTHER -> Parser_rule(p1, "expr_stmt", << >>)} } : TRUE )

      [] fn = "for_condition" -> (
          CHOOSE r \in
            { IF p.halt # "none" THEN p
              ELSE Parser_rule(consume(p, "SEMICOLON", "Except ';' after loop condition."),
                  "for_increment", [initializer |-> a.initializer, condition |-> p.res])
              : p \in {IF peek(ps) = "SEMICOLON" THEN [advance(ps) EXCEPT !.res = << >>]
                       ELSE CHOOSE r2 \in
                              { IF q.halt # "none" THEN q ELSE [q EXCEPT !.res = <<q.res>>]
                                : q \in {Parser_rule(ps, "expression", << >>)} } : TRUE} } : TRUE )

      [] fn = "for_increment" -> (
          CHOOSE r \in
            { IF p.halt # "none" THEN p
              ELSE Parser_rule(consume(p, "RIGHT_PAREN", "Except ')' after for clauses."),
                  "for_body", [initializer |-> a.initializer, condition |-> a.condition, increment |-> p.res])
              : p \in {IF peek(ps) = "RIGHT_PAREN" THEN [advance(ps) EXCEPT !.res = << >>]
                       ELSE CHOOSE r2 \in
                              { IF q.halt # "none" THEN q ELSE [q EXCEPT !.res = <<q.res>>]
                                : q \in {Parser_rule(ps, "expression", << >>)} } : TRUE} } : TRUE )

      [] fn = "for_body" -> (
          CHOOSE r \in
            { IF p.halt # "none" \/ p.res = << >> THEN p
              ELSE LET body == IF a.increment # << >>
                               THEN Stmt_Block(<<p.res[1], Stmt_Expression(a.increment[1])>>)
                               ELSE p.res[1]
                       c == IF a.condition # << >> THEN a.condition[1]
                            ELSE Literal(Bool(TRUE))
                   IN [p EXCEPT !.res =
                         IF a.initializer # << >>
                         THEN <<Stmt_Block(<<a.initializer[1], Stmt_While(c, body)>>)>>
                         ELSE <<Stmt_While(c, body)>>]
              : p \in {Parser_rule(ps, "statement", << >>)} } : TRUE )

      [] fn = "if_stmt" -> (
          CHOOSE r \in
            { IF p.halt # "none" THEN p
              ELSE CHOOSE r2 \in
                { IF q.halt # "none" THEN q
                  ELSE IF q.res = << >>
                  THEN error(q, peek_token(q), "Expect then block after 'if'.")
                  ELSE Parser_rule(q,
                      "else_branch", [condition |-> p.res, then_branch |-> q.res[1]])
                  : q \in {Parser_rule(consume(p, "RIGHT_PAREN",
                                             "Expect ')' after 'if'."), "statement", << >>)} } : TRUE
              : p \in {Parser_rule(consume(ps, "LEFT_PAREN",
                                          "Expect '(' after 'if'."), "expression", << >>)} } : TRUE )

      [] fn = "else_branch" -> (
          IF peek(ps) # "ELSE"
          THEN [ps EXCEPT !.res = <<Stmt_If(a.condition, a.then_branch, << >>)>>]
          ELSE CHOOSE r \in
            { IF p.halt # "none" THEN p
              ELSE IF p.res = << >>
              THEN error(p, peek_token(p), "Expect then block after 'else'.")
              ELSE [p EXCEPT !.res = <<Stmt_If(a.condition, a.then_branch, p.res)>>]
              : p \in {Parser_rule(advance(ps), "statement", << >>)} } : TRUE )

      [] fn = "expr_stmt" -> (
          CHOOSE r \in
            { IF p.halt # "none" THEN p
              ELSE [consume(p, "SEMICOLON", "Expect ';' after expression.")
                      EXCEPT !.res = <<Stmt_Expression(p.res)>>]
              : p \in {Parser_rule(ps, "expression", << >>)} } : TRUE )

      [] fn = "break_stmt" -> (
          LET p == consume(ps, "SEMICOLON", "Expect ';' after break.")
          IN IF ~p.in_loop
             THEN [error(p, peek_token(p), "Cannot use 'break' outside of a loop.")
                     EXCEPT !.res = << >>]
             ELSE [p EXCEPT !.res = <<Stmt_Break>>] )

      \* ----- parse
      [] fn = "parse" -> (
          IF is_eof(ps) THEN [ps EXCEPT !.res = Ok(a.statements)]
          ELSE CHOOSE r \in
            { IF p.halt = "panic" THEN [p EXCEPT !.res = Panic]
              ELSE IF p.halt = "diverge" THEN [p EXCEPT !.res = Diverge]
              ELSE IF p.res = << >> /\ p.errors # << >>
              THEN [p EXCEPT !.res = Err(p.errors[1])]
              ELSE IF repeats(ps, p) THEN [p EXCEPT !.halt = "diverge", !.res = Diverge]
              ELSE Parser_rule(p, "parse", [statements |-> a.statements \o p.res])
              : p \in {Parser_rule(ps, "declaration", << >>)} } : TRUE )

\* Parser::parse on Parser::new(tokens).
Parser_parse(tokens) ==
    Parser_rule(Parser_new(tokens), "parse", [statements |-> << >>])

\* Token sequences, as the Lexer leaves them (no EOF token at the end), by
\* name; the comment before each is its text.
TokenScenario ==
    LET NUMBER(n) == Token("NUMBER", <<Number(n)>>)
        IDENTIFIER(s) == Token("IDENTIFIER", <<String(<<s>>)>>)
        t(token_type) == Token(token_type, << >>)
    IN
      [ \* 1 + 2 * 3
        precedence |-> <<NUMBER(1), t("PLUS"), NUMBER(2), t("STAR"), NUMBER(3)>>,
        \* 1 - 2 / 3
        precedence_slash |-> <<NUMBER(1), t("MINUS"), NUMBER(2), t("SLASH"), NUMBER(3)>>,
        \* 1 * 2 + 3
        factor_first |-> <<NUMBER(1), t("STAR"), NUMBER(2), t("PLUS"), NUMBER(3)>>,
        \* 1 + 2 < 3 == true
        comparison |-> <<NUMBER(1), t("PLUS"), NUMBER(2), t("LESS"), NUMBER(3),
                         t("EQUAL_EQUAL"), t("TRUE")>>,
        \* - 1 * 2
        unary_factor |-> <<t("MINUS"), NUMBER(1), t("STAR"), NUMBER(2)>>,
        \* 1 * - 2
        factor_unary |-> <<NUMBER(1), t("STAR"), t("MINUS"), NUMBER(2)>>,
        \* ( 1 + 2 ) * 3
        grouping |-> <<t("LEFT_PAREN"), NUMBER(1), t("PLUS"), NUMBER(2),
                       t("RIGHT_PAREN"), t("STAR"), NUMBER(3)>>,
        \* break ;
        break_alone |-> <<t("BREAK"), t("SEMICOLON")>>,
        \* while ( true ) break ;
        break_while |-> <<t("WHILE"), t("LEFT_PAREN"), t("TRUE"), t("RIGHT_PAREN"),
                          t("BREAK"), t("SEMICOLON")>>,
        \* for ( ; true ; 1 ) break ;
        break_for |-> <<t("FOR"), t("LEFT_PAREN"), t("SEMICOLON"), t("TRUE"),
                        t("SEMICOLON"), NUMBER(1), t("RIGHT_PAREN"),
                        t("BREAK"), t("SEMICOLON")>>,
        \* for ( var i = 1 ; i < 2 ; i = i + 1 ) { print i ; }
        for_print |-> <<t("FOR"), t("LEFT_PAREN"), t("VAR"), IDENTIFIER("i"), t("EQUAL"),
                        NUMBER(1), t("SEMICOLON"), IDENTIFIER("i"), t("LESS"), NUMBER(2),
                        t("SEMICOLON"), IDENTIFIER("i"), t("EQUAL"), IDENTIFIER("i"),
                        t("PLUS"), NUMBER(1), t("RIGHT_PAREN"), t("LEFT_BRACE"),
                        t("PRINT"), IDENTIFIER("i"), t("SEMICOLON"), t("RIGHT_BRACE")>>,
        \* while ( true ) { fun f ( ) { break ; } }
        break_function |-> <<t("WHILE"), t("LEFT_PAREN"), t("TRUE"), t("RIGHT_PAREN"),
                             t("LEFT_BRACE"), t("FUN"), IDENTIFIER("f"), t("LEFT_PAREN"),
                             t("RIGHT_PAREN"), t("LEFT_BRACE"), t("BREAK"),
                             t("SEMICOLON"), t("RIGHT_BRACE"), t("RIGHT_BRACE")>>,
        \* while ( true ) { var g = fun ( a ) { break ; } ; g ( 1 ) ; }
        break_lambda |-> <<t("WHILE"), t("LEFT_PAREN"), t("TRUE"), t("RIGHT_PAREN"),
                           t("LEFT_BRACE"), t("VAR"), IDENTIFIER("g"), t("EQUAL"),
                           t("FUN"), t("LEFT_PAREN"), IDENTIFIER("a"), t("RIGHT_PAREN"),
                           t("LEFT_BRACE"), t("BREAK"), t("SEMICOLON"), t("RIGHT_BRACE"),
                           t("SEMICOLON"), IDENTIFIER("g"), t("LEFT_PAREN"), NUMBER(1),
                           t("RIGHT_PAREN"), t("SEMICOLON"), t("RIGHT_BRACE")>>,
        \* fun f ( ) { while ( true ) break ; return 1 ; }
        break_in_function_loop |->
                   <<t("FUN"), IDENTIFIER("f"), t("LEFT_PAREN"), t("RIGHT_PAREN"),
                     t("LEFT_BRACE"), t("WHILE"), t("LEFT_PAREN"), t("TRUE"),
                     t("RIGHT_PAREN"), t("BREAK"), t("SEMICOLON"), t("RETURN"),
                     NUMBER(1), t("SEMICOLON"), t("RIGHT_BRACE")>>,
        \* class A { m ( a , b ) { } }
        class |-> <<t("CLASS"), IDENTIFIER("A"), t("LEFT_BRACE"), IDENTIFIER("m"),
                    t("LEFT_PAREN"), IDENTIFIER("a"), t("COMMA"), IDENTIFIER("b"),
                    t("RIGHT_PAREN"), t("LEFT_BRACE"), t("RIGHT_BRACE"),
                    t("RIGHT_BRACE")>>,
        \* if ( a or b and ! a ) print f ( 1 , 2 ) ; else a = 1 , 2 ;
        if_else |-> <<t("IF"), t("LEFT_PAREN"), IDENTIFIER("a"), t("OR"), IDENTIFIER("b"),
                      t("AND"), t("BANG"), IDENTIFIER("a"), t("RIGHT_PAREN"), t("PRINT"),
                      IDENTIFIER("f"), t("LEFT_PAREN"), NUMBER(1), t("COMMA"), NUMBER(2),
                      t("RIGHT_PAREN"), t("SEMICOLON"), t("ELSE"), IDENTIFIER("a"),
                      t("EQUAL"), NUMBER(1), t("COMMA"), NUMBER(2), t("SEMICOLON")>>,
        \* var a = fun ( 1 ) { } ;
        lambda_number |-> <<t("VAR"), IDENTIFIER("a"), t("EQUAL"), t("FUN"),
                            t("LEFT_PAREN"), NUMBER(1), t("RIGHT_PAREN"),
                            t("LEFT_BRACE"), t("RIGHT_BRACE"), t("SEMICOLON")>>,
        \* { print 1 ; ) }
        block_paren |-> <<t("LEFT_BRACE"), t("PRINT"), NUMBER(1), t("SEMICOLON"),
                          t("RIGHT_PAREN"), t("RIGHT_BRACE")>>,
        \* print ( 1 ; print 2 ;
        missing_paren |-> <<t("PRINT"), t("LEFT_PAREN"), NUMBER(1), t("SEMICOLON"),
                            t("PRINT"), NUMBER(2), t("SEMICOLON")>>,
        \* var 1 ; print 2 ;
        var_number |-> <<t("VAR"), NUMBER(1), t("SEMICOLON"),
                         t("PRINT"), NUMBER(2), t("SEMICOLON")>> ]

\* The scenarios, and every sequence of up to MaxTokens tokens of the pool
\* 1 - * ) ; print
TokenSequences ==
    LET TokenPool ==
          { Token("NUMBER", <<Number(1)>>), Token("MINUS", << >>), Token("STAR", << >>),
            Token("RIGHT_PAREN", << >>), Token("SEMICOLON", << >>), Token("PRINT", << >>) }
    IN {TokenScenario[n] : n \in DOMAIN TokenScenario}
       \cup UNION {[1..len -> TokenPool] : len \in 0..MaxTokens}

\* --------------------------------------------------------------- driver

VARIABLES
    program,    \* the statements parse_program returned
    entry,      \* "run": main.rs run (resolve, then interpret);
                \* "interpret": Interpreter::interpret called on its own
    run,        \* 1 or 2: which execution of the program this is
    first,      \* what the first execution printed and reported
    phase,      \* "resolve", "interpret" or "done"
    pos,        \* the statement the loop of the phase is at
    resolver,   \* the Resolver
    interp,     \* the Interpreter
    reported,   \* the error handed back, or [kind |-> "none"]
    heap,       \* Environments on their own: [envs, res], res the last result
    op,         \* the Environment operation applied last
    tokens,     \* the token sequence handed to the parsers
    parsed      \* what a parser made of it: [kind, res, errors]

vars == <<program, entry, run, first, phase, pos, resolver, interp, reported,
          heap, op, tokens, parsed>>

NoError == [kind |-> "none", err |-> "", name |-> ""]

Fresh(e) ==
    /\ phase' = (IF e = "run" THEN "resolve" ELSE "interpret")
    /\ pos' = 1
    /\ interp' = Interpreter_new
    /\ resolver' = Resolver_new(<< >>)
    /\ reported' = NoError

Init ==
    /\ program \in Programs
    /\ entry \in {"run", "interpret"}
    /\ run = 1
    /\ first = [out |-> << >>, reported |-> NoError]
    /\ phase = (IF entry = "run" THEN "resolve" ELSE "interpret")
    /\ pos = 1
    /\ interp = Interpreter_new
    /\ resolver = Resolver_new(<< >>)
    /\ reported = NoError
    /\ heap = [envs |-> <<NewEnv(0)>>, res |-> Ok(Unit)]
    /\ op = [kind |-> "none"]
    /\ tokens = << >>
    /\ parsed = [kind |-> "none"]

\* The errors resolve_stmts can return for a failed statement: the one
\* error, or for UnusedVariable one per name end_scope may meet first.
StaticErrors(res) ==
    IF res.err = "UnusedVariable"
    THEN {[kind |-> "static", err |-> res.err, name |-> n] : n \in res.names}
    ELSE {[kind |-> "static", err |-> res.err, name |-> ""]}

\* One iteration of the loop of Resolver::resolve_stmts; on Err, run
\* reports it and returns without interpreting.
ResolveStmt ==
    /\ phase = "resolve"
    /\ pos <= Len(program)
    /\ LET r1 == Resolver_resolve([resolver EXCEPT !.locals = interp.locals],
                                  program[pos])
       IN /\ resolver' = r1
          /\ interp' = [interp EXCEPT !.locals = r1.locals]
          /\ IF r1.res.kind = "error"
             THEN /\ reported' \in StaticErrors(r1.res)
                  /\ phase' = "done"
                  /\ pos' = pos
             ELSE /\ reported' = reported
                  /\ phase' = phase
                  /\ pos' = pos + 1
    /\ UNCHANGED <<program, entry, run, first, heap, op, tokens, parsed>>

\* resolve_stmts returned Ok(()): run goes on to Interpreter::interpret.
ResolveDone ==
    /\ phase = "resolve"
    /\ pos > Len(program)
    /\ phase' = "interpret"
    /\ pos' = 1
    /\ UNCHANGED <<program, entry, run, first, resolver, interp, reported, heap, op, tokens, parsed>>

\* An iteration that records the error of a failed statement and goes on
\* to the next statement.
InterpretStmt_continue ==
    /\ phase = "interpret"
    /\ pos <= Len(program)
    /\ LET s1 == execute(interp, program[pos])
           s2 == Log(s1, [ev |-> "top", kind |-> s1.res.kind])
       IN /\ interp' = s2
          /\ CASE s1.res.kind = "error" ->
                    /\ reported' = IF reported = NoError
                                   THEN [kind |-> "runtime", err |-> s1.res.err, name |-> ""]
                                   ELSE reported
                    /\ phase' = phase
                    /\ pos' = pos + 1
               [] s1.res.kind \in {"panic", "diverge"} ->
                    /\ reported' = [kind |-> s1.res.kind, err |-> "", name |-> ""]
                    /\ phase' = "done"
                    /\ pos' = pos
               [] OTHER ->
                    /\ reported' = reported
                    /\ phase' = phase
                    /\ pos' = pos + 1
    /\ UNCHANGED <<program, entry, run, first, resolver, heap, op, tokens, parsed>>

\* One iteration of the loop of Interpreter::interpret: only
\* Err(ControlFlow::Error(e)) ends it.
InterpretStmt ==
    /\ phase = "interpret"
    /\ pos <= Len(program)
    /\ LET s1 == execute(interp, program[pos])
           s2 == Log(s1, [ev |-> "top", kind |-> s1.res.kind])
       IN /\ interp' = s2
          /\ CASE s1.res.kind = "error" ->
                    /\ reported' = [kind |-> "runtime", err |-> s1.res.err, name |-> ""]
                    /\ phase' = "done"
                    /\ pos' = pos
               [] s1.res.kind \in {"panic", "diverge"} ->
                    /\ reported' = [kind |-> s1.res.kind, err |-> "", name |-> ""]
                    /\ phase' = "done"
                    /\ pos' = pos
               [] OTHER ->
                    /\ reported' = reported
                    /\ phase' = phase
                    /\ pos' = pos + 1
    /\ UNCHANGED <<program, entry, run, first, resolver, heap, op, tokens, parsed>>

\* interpret returned Ok(()).
InterpretDone ==
    /\ phase = "interpret"
    /\ pos > Len(program)
    /\ phase' = "done"
    /\ UNCHANGED <<program, entry, run, first, pos, resolver, interp, reported,
                   heap, op, tokens, parsed>>

\* The same program is run again from a fresh Interpreter.
Rerun ==
    /\ phase = "done"
    /\ run = 1
    /\ run' = 2
    /\ first' = [out |-> resolver.out \o interp.out, reported |-> reported]
    /\ Fresh(entry)
    /\ UNCHANGED <<program, entry, heap, op, tokens, parsed>>

\* What run returns to run_file as had_runtime_error: true after the
\* Err of resolve_stmts and after the Err of interpret, false otherwise.
had_runtime_error(rep) == rep.kind \in {"static", "runtime"}

\* run_file after run has returned: the code given to process::exit, 0 for
\* the Ok(()) that main returns. had_error is the flag error::report sets,
\* for the errors of the scanner and of the parser.
run_file(had_error, runtime_error) ==
    IF had_error THEN 65 ELSE IF runtime_error THEN 70 ELSE 0

Next == ResolveStmt \/ ResolveDone \/ InterpretStmt \/ InterpretDone \/ Rerun

Spec == Init /\ [][Next]_vars

\* ------------------------------------------- Environment operations alone

\* One root Environment (Environment::new); no program is run.
EnvInit ==
    /\ program = << >>
    /\ entry = "run"
    /\ run = 1
    /\ first = [out |-> << >>, reported |-> NoError]
    /\ phase = "done"
    /\ pos = 1
    /\ interp = Interpreter_new
    /\ resolver = Resolver_new(<< >>)
    /\ reported = NoError
    /\ heap = [envs |-> <<NewEnv(0)>>, res |-> Ok(Unit)]
    /\ op = [kind |-> "new"]
    /\ tokens = << >>
    /\ parsed = [kind |-> "none"]

\* Environment::from(enclosing), for any Environment there is.
EnvFrom ==
    /\ Len(heap.envs) < MaxEnvs
    /\ \E e \in DOMAIN heap.envs :
          /\ heap' = SetRes(Environment_from(heap, e), Ok(Unit))
          /\ op' = [kind |-> "from", e |-> e]
    /\ UNCHANGED <<program, entry, run, first, phase, pos, resolver, interp, reported,
                   tokens, parsed>>

\* define(name, value) on any Environment.
EnvDefine ==
    /\ \E e \in DOMAIN heap.envs, name \in {"a"}, value \in {Number(1), Number(2)} :
          /\ heap' = SetRes(Environment_define(heap, e, name, value), Ok(Unit))
          /\ op' = [kind |-> "define", e |-> e, name |-> name, value |-> value]
    /\ UNCHANGED <<program, entry, run, first, phase, pos, resolver, interp, reported,
                   tokens, parsed>>

\* assign(name, value) on any Environment; "b" is a name never defined.
EnvAssign ==
    /\ \E e \in DOMAIN heap.envs, name \in {"a", "b"}, value \in {Number(1), Number(2)} :
          /\ heap' = Environment_assign(heap, e, name, value)
          /\ op' = [kind |-> "assign", e |-> e, name |-> name, value |-> value]
    /\ UNCHANGED <<program, entry, run, first, phase, pos, resolver, interp, reported,
                   tokens, parsed>>

\* assign_at(distance, name, value) on any Environment, for every distance
\* its chain has.
EnvAssignAt ==
    /\ \E e \in DOMAIN heap.envs, distance \in 0..(MaxEnvs - 1),
          name \in {"a"}, value \in {Number(1), Number(2)} :
          /\ Hops(heap, e, distance) # 0
          /\ heap' = Environment_assign_at(heap, e, distance, name, value)
          /\ op' = [kind |-> "assign_at", e |-> e, distance |-> distance,
                    name |-> name, value |-> value]
    /\ UNCHANGED <<program, entry, run, first, phase, pos, resolver, interp, reported,
                   tokens, parsed>>

EnvNext == EnvFrom \/ EnvDefine \/ EnvAssign \/ EnvAssignAt

EnvSpec == EnvInit /\ [][EnvNext]_vars

\* ------------------------------------------------------ the parsers alone

\* No program is run; any token sequence is there to be parsed.
ParseInit ==
    /\ program = << >>
    /\ entry = "run"
    /\ run = 1
    /\ first = [out |-> << >>, reported |-> NoError]
    /\ phase = "done"
    /\ pos = 1
    /\ interp = Interpreter_new
    /\ resolver = Resolver_new(<< >>)
    /\ reported = NoError
    /\ heap = [envs |-> <<NewEnv(0)>>, res |-> Ok(Unit)]
    /\ op = [kind |-> "none"]
    /\ tokens \in TokenSequences
    /\ parsed = [kind |-> "none"]

\* parse_program(tokens) of parser/mod.rs. `errors` keeps every error the
\* Parser recorded, the one parse removed to return it included.
ParseProgram ==
    /\ parsed.kind = "none"
    /\ parsed' = CHOOSE r \in
                   { [kind |-> "program", res |-> p.res, errors |-> p.errors]
                     : p \in {Parser_parse(tokens)} } : TRUE
    /\ UNCHANGED <<program, entry, run, first, phase, pos, resolver, interp, reported,
                   heap, op, tokens>>

\* parse_expr(tokens) of expr_parser.rs.
ParseExpr ==
    /\ parsed.kind = "none"
    /\ parsed' = CHOOSE r \in
                   { [kind |-> "expr", res |-> p.res, errors |-> p.errors]
                     : p \in {ExprParser_parse(tokens)} } : TRUE
    /\ UNCHANGED <<program, entry, run, first, phase, pos, resolver, interp, reported,
                   heap, op, tokens>>

ParseNext == ParseProgram \/ ParseExpr

ParseSpec == ParseInit /\ [][ParseNext]_vars

\* ---------------------------------------------------------- properties

\* C1: whenever execute_block has returned, for a block statement or for
\* the body of a Closure call, and whatever the outcome of the statements
\* (normal, Break, Return, error), the interpreter's current Environment is
\* the one that was current before the block or the call.
C1_EnvironmentRestored ==
    \A i \in DOMAIN interp.log :
        interp.log[i].ev \in {"block", "call"} =>
            interp.log[i].after = interp.log[i].before

\* C1 happens: blocks left by a Return and by an error, and calls whose
\* body ended with a Return and with an error, have all returned.
C1_Witness ==
    /\ \E i \in DOMAIN interp.log :
          interp.log[i].ev = "block" /\ interp.log[i].kind = "return"
    /\ \E i \in DOMAIN interp.log :
          interp.log[i].ev = "block" /\ interp.log[i].kind = "error"
    /\ \E i \in DOMAIN interp.log :
          interp.log[i].ev = "call" /\ interp.log[i].body.kind = "return"
    /\ \E i \in DOMAIN interp.log :
          interp.log[i].ev = "call" /\ interp.log[i].body.kind = "error"

\* C2: a while statement whose body raises Break terminates normally; the
\* Break does not leave it.
C2_WhileCatchesBreak ==
    \A i \in DOMAIN interp.log :
        (interp.log[i].ev = "while" /\ interp.log[i].body = "break") =>
            interp.log[i].res = "ok"

\* C3: the result of a Closure call is the value of a Return raised in its
\* body, Null when the body completes normally, and the body's own Break or
\* error otherwise.
C3_CallResult ==
    \A i \in DOMAIN interp.log :
        interp.log[i].ev = "call" =>
            CASE interp.log[i].body.kind = "return" ->
                    interp.log[i].res = Ok(interp.log[i].body.val)
              [] interp.log[i].body.kind = "ok" ->
                    interp.log[i].res = Ok(Null)
              [] OTHER ->
                    interp.log[i].res = interp.log[i].body

\* C3 happens: f returns 7 from inside while/if/blocks, g completes
\* normally and its call prints as Null, and the error in h ends the program.
C3_Witness ==
    /\ program = ScenarioProgram.calls
    /\ phase = "done"
    /\ interp.out = <<Number(7), Number(1), Null>>
    /\ reported.kind = "runtime"
    /\ reported.err = "WrongValueType"

\* C4: when the program went through the Resolver, no top-level statement
\* hands a Break or a Return to Interpreter::interpret.
C4_NoSignalAtTopLevel ==
    entry = "run" =>
        \A i \in DOMAIN interp.log :
            interp.log[i].ev = "top" => interp.log[i].kind \notin {"break", "return"}

\* C4 happens: a resolved program raised a Return, which a call consumed,
\* and ran to its end.
C4_Witness ==
    /\ entry = "run"
    /\ phase = "done"
    /\ reported = NoError
    /\ \E i \in DOMAIN interp.log : interp.log[i].ev = "return"
    /\ \E i \in DOMAIN interp.log : interp.log[i].ev = "top"

\* C5: in a resolved program, every time a variable read or assignment
\* executes, the distance the Interpreter uses for it is the one the
\* Resolver computed for that very site (-1: the global Environment, by
\* name), also when the same name is referenced at several depths.
C5_DistancePerSite ==
    entry = "run" =>
        \A i \in DOMAIN interp.log :
            interp.log[i].ev \in {"lookup", "assign"} =>
                interp.log[i].distance = resolver.sites[interp.log[i].site]

\* C6: a Closure reads and writes the Environment of its definition: the
\* counter closure yields 1 then 2 whatever follows it in the program, two
\* closures of one Environment see each other's assignment, and a function
\* called from a scope with its own x still reads the x of its definition.
C6_ClosureCapturesDefinition ==
    (entry = "run" /\ phase = "done") =>
        /\ (Len(program) >= 4 /\ SubSeq(program, 1, 4) = ScenarioProgram.counter) =>
              /\ Len(interp.out) >= 2
              /\ interp.out[1] = Number(1)
              /\ interp.out[2] = Number(2)
        /\ program = ScenarioProgram.shared => interp.out = <<Number(5)>>
        /\ program = ScenarioProgram.lexical => interp.out = <<Number(1), Number(2)>>

\* C7: a name declared in a block shadows the enclosing binding inside the
\* block only: the read in the block prints 2, the read after it prints 1.
C7_ShadowingEndsWithBlock ==
    (entry = "run" /\ phase = "done"
        /\ program \in {ScenarioProgram.shadow, ScenarioProgram.shadow_local, ScenarioProgram.shadow_sibling}) =>
        interp.out = <<Number(2), Number(1)>>

\* C8: a program holding a block in which a declaration reads the declared
\* name in its own initializer is never interpreted: it prints nothing,
\* executes nothing, ends with a static error, and the error of that block
\* is InvalidContext.
C8_SelfInitializerRejected ==
    LET Reads(e, n) ==
            \/ e.k = "Variable" /\ e.name = n
            \/ /\ e.k = "Binary"
               /\ \/ e.left.k = "Variable" /\ e.left.name = n
                  \/ e.right.k = "Variable" /\ e.right.name = n
        SelfInit(s) ==
            /\ s.k = "Block"
            /\ \E j \in DOMAIN s.statements :
                  /\ s.statements[j].k = "Var"
                  /\ s.statements[j].initializer # << >>
                  /\ Reads(s.statements[j].initializer[1], s.statements[j].name)
    IN (entry = "run" /\ \E p \in DOMAIN program : SelfInit(program[p])) =>
          /\ phase # "interpret"
          /\ interp.out = << >>
          /\ interp.log = << >>
          /\ phase = "done" =>
                /\ reported.kind = "static"
                /\ SelfInit(program[pos]) => reported.err = "InvalidContext"

\* C8 happens: print 0; { var a = a; } was rejected with InvalidContext and
\* the print before the block did not run.
C8_Witness ==
    /\ entry = "run"
    /\ program = ScenarioProgram.self_init
    /\ phase = "done"
    /\ reported.kind = "static"
    /\ reported.err = "InvalidContext"
    /\ interp.out = << >>

\* C9: the second execution of a program, from a fresh Interpreter, ends
\* with the same output and the same reported error as the first.
C9_SameResultTwice ==
    (entry = "run" /\ run = 2 /\ phase = "done") =>
        [out |-> resolver.out \o interp.out, reported |-> reported] = first

\* C10: for var r = <left> <operator> <right>; and var r = -<right>;
\* -, /, * give a Number and >, >=, <, <= a Bool when both operands are
\* Numbers; + gives the sum of two Numbers and the concatenation of two
\* Strings; unary - gives a Number for a Number; every other combination
\* ends the program with WrongValueType and r is not defined.
C10_OperatorTypes ==
    (phase = "done" /\ program \in OperatorPrograms) =>
        LET e == program[2].initializer[1]
            Operand(x) == IF x.k = "Literal" THEN x.value ELSE [t |-> "Callable"]
            r == Operand(e.right)
            globals == interp.envs[interp.globals].values
            failed == /\ reported.kind = "runtime"
                      /\ reported.err = "WrongValueType"
                      /\ "r" \notin DOMAIN globals
            produced == reported = NoError /\ "r" \in DOMAIN globals
        IN IF e.k = "Unary"
           THEN IF r.t = "Number"
                THEN produced /\ globals["r"] = [r EXCEPT !.n = 0 - r.n]
                ELSE failed
           ELSE LET l == Operand(e.left)
                    numbers == l.t = "Number" /\ r.t = "Number"
                IN CASE e.operator \in {"-", "/", "*"} ->
                          IF numbers THEN produced /\ globals["r"].t = "Number" ELSE failed
                     [] e.operator \in {">", ">=", "<", "<="} ->
                          IF numbers THEN produced /\ globals["r"].t = "Bool" ELSE failed
                     [] e.operator = "+" ->
                          IF numbers
                          THEN produced /\ globals["r"] = Number(l.n + r.n)
                          ELSE IF l.t = "String" /\ r.t = "String"
                               THEN produced /\ globals["r"] = String(l.s \o r.s)
                               ELSE failed

\* C10 happens: 6 + "a" ended the program with WrongValueType, and 6 - 0,
\* "a" + "a" and -6 are among the programs that define r.
C10_Witness ==
    /\ program = OperatorProgram(Binary(N(6), "+", S("a")))
    /\ phase = "done"
    /\ reported.kind = "runtime"
    /\ reported.err = "WrongValueType"
    /\ "r" \notin DOMAIN interp.envs[interp.globals].values

\* The value an operand of an EqualityProgram evaluates to, when it is a
\* primitive: the literal's value, or NaN for 0 / 0.
C11_Primitive(x) == IF x.k = "Literal" THEN x.value ELSE Ratio(0, 0)

\* C11 as stated: on primitive operands, == is true exactly when both are
\* of the same kind and hold the same value, and != is its negation.
C11_SameValueEqual ==
    (phase = "done" /\ program \in EqualityPrograms) =>
        LET e == program[2].initializer[1] IN
        (e.left.k # "Variable" /\ e.right.k # "Variable") =>
            LET same == C11_Primitive(e.left) = C11_Primitive(e.right)
                globals == interp.envs[interp.globals].values
            IN /\ reported = NoError
               /\ "r" \in DOMAIN globals
               /\ globals["r"] = Bool(IF e.operator = "==" THEN same ELSE ~same)

\* C11 amended: as above, except that a NaN is equal to no Number, itself
\* included (== is false and != is true whenever an operand is NaN).
C11_SameValueEqualButNaN ==
    (phase = "done" /\ program \in EqualityPrograms) =>
        LET e == program[2].initializer[1] IN
        (e.left.k # "Variable" /\ e.right.k # "Variable") =>
            LET l == C11_Primitive(e.left)
                r == C11_Primitive(e.right)
                same == l = r /\ ~(l.t = "Number" /\ IsNaN(l))
                globals == interp.envs[interp.globals].values
            IN /\ reported = NoError
               /\ "r" \in DOMAIN globals
               /\ globals["r"] = Bool(IF e.operator = "==" THEN same ELSE ~same)

\* C11 happens: nil == nil has given true, in a run where 0 == "a" style
\* comparisons of different kinds are among the programs.
C11_Witness ==
    /\ program = OperatorProgram(Binary(Nil, "==", Nil))
    /\ phase = "done"
    /\ reported = NoError
    /\ "r" \in DOMAIN interp.envs[interp.globals].values
    /\ interp.envs[interp.globals].values["r"] = Bool(TRUE)

\* C12: == on Class, Instance and Callable values is identity: x == x,
\* A == A and f == f print true for an Instance x, a Class A and a function
\* f, and x == y prints false for two Instances of A.
C12_IdentityEqual ==
    (phase = "done" /\ program = ClassProgram.identity) =>
        interp.out = <<Bool(TRUE), Bool(TRUE), Bool(TRUE), Bool(FALSE)>>

\* C13: in if, while, ! and the logical operators a value counts as false
\* when it is Null or Bool(false) and as true otherwise: 0, "", a function,
\* a Class and an Instance count as true.
C13_Truthiness ==
    (phase = "done" /\ program \in TruthPrograms) =>
        LET operand == program[4].initializer[1]
            context == program[5]
            truthy == ~(operand.k = "Literal"
                        /\ operand.value \in {Null, Bool(FALSE)})
            globals == interp.envs[interp.globals].values
            x == IF operand.k = "Literal" THEN operand.value
                 ELSE globals[operand.name]
        IN /\ reported = NoError
           /\ CASE context.k = "If" ->
                     interp.out = <<Number(IF truthy THEN 1 ELSE 0)>>
                [] context.k = "While" ->
                     interp.out = IF truthy THEN <<Number(1)>> ELSE << >>
                [] context.initializer[1].k = "Unary" ->
                     globals["r"] = Bool(~truthy)
                [] context.initializer[1].operator = "or" ->
                     globals["r"] = IF truthy THEN x ELSE Number(2)
                [] context.initializer[1].operator = "and" ->
                     globals["r"] = IF truthy THEN Number(2) ELSE x

\* C13 happens: with x = 0 the if has taken its then branch, and the
\* programs with an Instance, a Class and a function as x have ended.
C13_Witness ==
    /\ phase = "done"
    /\ program \in TruthPrograms
    /\ program[4].initializer[1] = N(0)
    /\ program[5].k = "If"
    /\ interp.out = <<Number(1)>>

\* C14: `or` with a truthy left operand and `and` with a falsy one give
\* the left operand's value and nothing of the right operand happens (no
\* assignment, no call, no error); otherwise the result is the right
\* operand's value, or its error.
C14_ShortCircuit ==
    (phase = "done" /\ program \in LogicalPrograms) =>
        LET left == program[3].initializer[1].value
            e == program[4].initializer[1]
            truthy == left \notin {Null, Bool(FALSE)}
            short == (e.operator = "or") = truthy
            globals == interp.envs[interp.globals].values
        IN IF short
           THEN /\ reported = NoError
                /\ globals["r"] = left
                /\ globals["n"] = Number(0)
                /\ \A i \in DOMAIN interp.log :
                      interp.log[i].ev \notin {"assign", "call"}
           ELSE CASE e.right.k = "Assign" ->
                       /\ reported = NoError
                       /\ globals["r"] = Number(1)
                       /\ globals["n"] = Number(1)
                  [] e.right.k = "Call" ->
                       /\ reported = NoError
                       /\ globals["r"] = Number(3)
                       /\ globals["n"] = Number(1)
                  [] OTHER ->
                       /\ reported.kind = "runtime"
                       /\ reported.err = "WrongValueType"
                       /\ "r" \notin DOMAIN globals

\* C14 happens: 0 or g() has ended with r = 0 and n still 0, g not called.
C14_Witness ==
    /\ phase = "done"
    /\ program \in LogicalPrograms
    /\ program[3].initializer[1] = N(0)
    /\ program[4].initializer[1].operator = "or"
    /\ program[4].initializer[1].right.k = "Call"
    /\ reported = NoError
    /\ interp.envs[interp.globals].values["r"] = Number(0)
    /\ interp.envs[interp.globals].values["n"] = Number(0)

\* C15: an assign(name, value) on Environment e fails with UndefinedVar and
\* changes nothing when no Environment from e to the root binds name;
\* otherwise it replaces the value in the nearest Environment that binds
\* name, changes no other Environment and creates no binding.
C15_AssignNeverDeclares ==
    [][op'.kind = "assign" =>
         LET chain == {Hops(heap, op'.e, d) : d \in 0..MaxEnvs} \ {0}
             bound == {c \in chain : op'.name \in DOMAIN heap.envs[c].values}
             above(c) == {Hops(heap, c, d) : d \in 1..MaxEnvs}
             nearest == CHOOSE c \in bound : bound \ {c} \subseteq above(c)
         IN IF bound = {}
            THEN /\ heap'.res = Err("UndefinedVar")
                 /\ heap'.envs = heap.envs
            ELSE /\ heap'.res = Ok(Unit)
                 /\ heap'.envs =
                       [heap.envs EXCEPT ![nearest].values[op'.name] = op'.value]
      ]_vars

\* C15 happens: an assign on an Environment that does not bind the name
\* has replaced the value in an enclosing one, two links up, past an
\* Environment that does not bind it either.
C15_Witness ==
    /\ op.kind = "assign"
    /\ heap.res = Ok(Unit)
    /\ op.name \notin DOMAIN heap.envs[op.e].values
    /\ Hops(heap, op.e, 2) # 0
    /\ op.name \notin DOMAIN heap.envs[Hops(heap, op.e, 1)].values
    /\ heap.envs[Hops(heap, op.e, 2)].values[op.name] = op.value

\* C16: a Closure body starts only with as many arguments as the Closure
\* has parameters, every parameter bound, and a Class is constructed only
\* with as many arguments as its arity.
C16_ArityChecked ==
    \A i \in DOMAIN interp.log :
        /\ interp.log[i].ev = "call" =>
              /\ Len(interp.log[i].arguments) = Len(interp.log[i].params)
              /\ \A p \in DOMAIN interp.log[i].params :
                    interp.log[i].params[p] \in interp.log[i].bound
        /\ interp.log[i].ev = "construct" =>
              Len(interp.log[i].arguments) = Class_arity(interp.log[i].klass)

\* The classes from klass up to the root of its superclass chain.
RECURSIVE C17_Lineage(_)
C17_Lineage(klass) ==
    {klass} \cup (IF klass.superclass = << >> THEN {}
                 ELSE C17_Lineage(klass.superclass[1]))

\* C17: calling a Class gives a new Instance of that Class, a different one
\* at every call; init runs exactly when the Class or an ancestor defines
\* it, bound to the new Instance and with the constructor arguments; the
\* result is the Instance whatever init returns (a bare `return;`, or the
\* `return 5;` that only an unresolved program can hold), and no value when
\* init fails; the arity is the parameter count of init, or 0 without init.
C17_ClassCall ==
    LET global == interp.envs[interp.globals].values
        finished(p) == phase = "done" /\ program = p /\ entry = "run"
        interpreted(p) == phase = "done" /\ program = p /\ entry = "interpret"
    IN
    /\ \A i \in DOMAIN interp.log :
          interp.log[i].ev = "construct" =>
            /\ interp.log[i].instance.t = "Instance"
            /\ interp.log[i].instance.klass = interp.log[i].klass
            /\ (interp.log[i].init # << >>) <=>
                  (\E c \in C17_Lineage(interp.log[i].klass) : "init" \in DOMAIN c.methods)
            /\ \A j \in DOMAIN interp.log :
                  (j # i /\ interp.log[j].ev = "construct") =>
                      interp.log[j].instance # interp.log[i].instance
    /\ finished(ClassProgram.class_init) =>
          /\ reported = NoError
          /\ interp.out = <<Number(4)>>
          /\ global["b"].t = "Instance" /\ global["b"].klass = global["B"]
          /\ interp.fields[global["b"].fields] = [v |-> Number(4)]
          /\ Class_arity(global["B"]) = 1
    /\ finished(ClassProgram.class_noinit) =>
          /\ reported = NoError
          /\ interp.out = <<Number(3)>>
          /\ interp.fields[global["a"].fields] = [x |-> Number(3)]
          /\ Class_arity(global["A"]) = 0
    /\ interpreted(ClassProgram.init_returns) =>
          /\ reported = NoError
          /\ interp.out = <<Number(3)>>
          /\ global["a"].t = "Instance"
    /\ finished(ClassProgram.init_fails) =>
          /\ reported.kind = "runtime"
          /\ interp.out = << >>
          /\ "a" \notin DOMAIN global

\* C17 happens: B(4) has run the init inherited from A on the new Instance
\* with the argument 4, and the program has printed the field init wrote.
C17_Witness ==
    /\ program = ClassProgram.class_init
    /\ phase = "done"
    /\ interp.out = <<Number(4)>>
    /\ \E i \in DOMAIN interp.log :
          /\ interp.log[i].ev = "construct"
          /\ interp.log[i].klass.name = "B"
          /\ interp.log[i].init = <<Null>>
          /\ interp.log[i].arguments = <<Number(4)>>

\* C18: b.m() on an Instance b of B, where B's m calls super.m() and A's m
\* writes this.x, runs A's m on b: afterwards b.x is 1 and b.y, written by
\* B's m after the super call, is 2, wherever in B's methods super.m()
\* stands.
C18_SuperMethod ==
    (phase = "done" /\ entry = "run"
       /\ program \in {ClassProgram.super, ClassProgram.super_depths}) =>
        /\ reported = NoError
        /\ interp.out = <<Number(1), Number(2)>>

\* What holds when an error has been returned: after a runtime error the
\* failed statement is the last one executed and the only one that failed;
\* after a static error nothing has been executed.
C19_AtError ==
    LET top == {i \in DOMAIN interp.log : interp.log[i].ev = "top"} IN
    /\ reported.kind = "runtime" =>
          /\ phase = "done"
          /\ pos <= Len(program)
          /\ Cardinality(top) = pos
          /\ interp.log[Len(interp.log)] = [ev |-> "top", kind |-> "error"]
          /\ \A i \in top : i # Len(interp.log) => interp.log[i].kind # "error"
    /\ reported.kind = "static" =>
          /\ phase = "done"
          /\ pos <= Len(program)
          /\ resolver.res.kind = "error"
          /\ interp.log = << >>
          /\ interp.out = << >>

\* C19: once interpret has returned the error of a top-level statement,
\* that statement is the last one executed, it is the only one that
\* failed, and nothing is executed or printed afterwards; once
\* resolve_stmts has returned a static error nothing more is resolved and
\* nothing is executed at all.
C19_StopsAtFirstError ==
    [][/\ C19_AtError'
       /\ reported.kind \in {"runtime", "static"} =>
             \/ run' # run
             \/ /\ interp' = interp
                /\ resolver' = resolver
                /\ reported' = reported
                /\ pos' = pos]_vars

\* C19 happens: a statement has failed, interpret has returned, and the
\* print statement that follows it in the program has printed nothing.
C19_Witness ==
    /\ phase = "done"
    /\ reported.kind = "runtime"
    /\ pos < Len(program)
    /\ program[pos + 1].k = "Print"
    /\ interp.out = << >>

\* C20: a program that uses `this` or `super` outside the body of a class
\* method, or `super` in a class without superclass, ends with a static
\* error and nothing of it is executed.
C20_ThisSuperRejected ==
    (phase = "done" /\ entry = "run"
       /\ program \in {ClassProgram.this_outside, ClassProgram.this_in_function,
                       ClassProgram.super_outside, ClassProgram.super_no_superclass}) =>
        /\ reported.kind = "static"
        /\ interp.out = << >>

\* C21: a batch run that ends with a static error of the Resolver does not
\* exit with the code a batch run exits with after a runtime error.
C21_DistinctExitCodes ==
    (phase = "done" /\ entry = "run" /\ reported.kind = "static") =>
        run_file(FALSE, had_runtime_error(reported)) #
            run_file(FALSE, had_runtime_error([reported EXCEPT !.kind = "runtime"]))

\* C23: every lookup by distance of a program the Resolver accepted finds
\* an Environment that many links up the chain (ancestor does not panic)
\* and finds the name in it.
C23_DistanceInChain ==
    /\ reported.kind # "panic"
    /\ \A i \in DOMAIN interp.log :
          (entry = "run" /\ interp.log[i].ev = "lookup" /\ interp.log[i].distance >= 0) =>
              LET a == Hops(interp, interp.log[i].env, interp.log[i].distance) IN
              /\ a # 0
              /\ interp.log[i].name \in DOMAIN interp.envs[a].values

\* C25: in the method table of every declared class the method named
\* `init` has is_initializer = true and every other method has
\* is_initializer = false.
C25_InitializerFlag ==
    LET global == interp.envs[interp.globals].values IN
    \A c \in DOMAIN global :
        global[c].t = "Class" =>
            \A m \in DOMAIN global[c].methods :
                global[c].methods[m].is_initializer = (m = "init")

\* C24: after assign_at(distance, name, value) on an Environment, a
\* get_at(distance, name) on it returns value, and so does every get_at
\* that reaches the same Environment from another one.
C24_AssignAtWrites ==
    [][op'.kind = "assign_at" =>
         LET target == Hops(heap, op'.e, op'.distance) IN
         \A e \in DOMAIN heap'.envs, d \in 0..(MaxEnvs - 1) :
             Hops(heap', e, d) = target =>
                 Environment_get_at(heap', e, d, op'.name) = Ok(op'.value)]_vars

\* C26: leaving a block or function scope that declares `a` fails with
\* UnusedVariable exactly when no read resolved to that `a` since its last
\* declaration: when it is not mentioned, only assigned, redeclared after
\* its last read, or only a shadowing `a` of an inner block is read; it
\* does not fail when `a` is read in the scope, in a nested block, in a
\* nested function or on the right of its own assignment.
C26_UnusedVariable ==
    \A x \in DOMAIN ScopeProgram :
        (phase = "done" /\ entry = "run" /\ program = ScopeProgram[x]) =>
            IF x[2] \in {1, 3, 7, 8}
            THEN reported = [kind |-> "static", err |-> "UnusedVariable", name |-> "a"]
            ELSE reported.kind # "static"

\* C26 happens: the block whose `a` is only assigned has been rejected
\* with UnusedVariable, nothing of it having run.
C26_Witness ==
    /\ program = ScopeProgram[<<"block", 3>>]
    /\ phase = "done"
    /\ entry = "run"
    /\ reported = [kind |-> "static", err |-> "UnusedVariable", name |-> "a"]
    /\ interp.out = << >>

\* C30: the Resolver accepts every statement and expression kind the parser
\* produces: a program with `break` inside a `while`, or with a lambda
\* expression, is not rejected by the Resolver.
C30_ResolverAcceptsAllKinds ==
    (/\ phase = "done"
     /\ entry = "run"
     /\ program \in {ScenarioProgram.break_nested, ScenarioProgram.lambda_break})
        => reported.kind # "static"

\* C22: ExprParser builds expressions by precedence: `1 + 2 * 3` and
\* `1 - 2 / 3` put the product under the sum, `1 + 2 < 3 == true` puts the
\* sum under the comparison and the comparison under the equality,
\* `- 1 * 2` puts the negation under the product, and `( 1 + 2 ) * 3` puts
\* a Grouping around the sum.
C22_Precedence ==
    parsed.kind = "expr" =>
        /\ tokens = TokenScenario.precedence =>
              parsed.res = Ok(Binary(N(1), "PLUS", Binary(N(2), "STAR", N(3))))
        /\ tokens = TokenScenario.precedence_slash =>
              parsed.res = Ok(Binary(N(1), "MINUS", Binary(N(2), "SLASH", N(3))))
        /\ tokens = TokenScenario.comparison =>
              parsed.res = Ok(Binary(Binary(Binary(N(1), "PLUS", N(2)), "LESS", N(3)),
                                     "EQUAL_EQUAL", T))
        /\ tokens = TokenScenario.unary_factor =>
              parsed.res = Ok(Binary(Unary("MINUS", N(1)), "STAR", N(2)))
        /\ tokens = TokenScenario.grouping =>
              parsed.res = Ok(Binary(Grouping(Binary(N(1), "PLUS", N(2))), "STAR", N(3)))

\* C27: the parser accepts `break` exactly when it is in the body of a
\* `while` or a `for` with no function body in between: it accepts
\* `while (true) break;` and `for (; true; 1) break;`, and rejects `break;`
\* and `while (true) { fun f() { break; } }`.
C27_BreakInsideLoop ==
    parsed.kind = "program" =>
        /\ tokens \in {TokenScenario.break_while, TokenScenario.break_for} =>
              parsed.res.kind = "ok"
        /\ tokens \in {TokenScenario.break_alone, TokenScenario.break_function} =>
              parsed.res.kind = "error"

\* C28: whenever parse_program has returned and the Parser had recorded an
\* error, what it returned is Err with the first error recorded.
C28_ErrorMeansErr ==
    (/\ parsed.kind = "program"
     /\ parsed.res.kind \in {"ok", "error"}
     /\ parsed.errors # << >>)
        => parsed.res = Err(parsed.errors[1])

\* C29: Parser::parse returns, whatever the token sequence.
C29_ParseTerminates ==
    parsed.kind = "program" => parsed.res.kind # "diverge"

====
